---- MODULE Spec2Model ----
(***************************************************************************)
(* Model of the date-inference engine (src/src/parsers/date_parser.py) and *)
(* of the part of the pipeline (src/src/main.py) that drives it.           *)
(*                                                                         *)
(* A title is None, or a string written as a sequence of tokens separated  *)
(* by single blanks.  A token is a word or a run of digits; a run of       *)
(* digits may carry an ordinal suffix, and any token may be followed       *)
(* directly by a comma.  "Saturday 30th December, 2023" is                 *)
(*   << Saturday, 30+th, December+comma, 2023 >>.                          *)
(***************************************************************************)
EXTENDS Integers, Sequences, FiniteSets, TLC

\* ------------------------------------------------------------------ bounds
MaxCalls == 3
MaxAttempts == 4
MaxPosts == 3
MaxWrites == 2
MaxText == 4
MaxTagPosts == 2
MaxPipePosts == 3
MaxFailed == 12
MaxImgPosts == 2
MaxWorkers == 2

\* ---------------------------------------------------------------- outcomes
\* Optional[date] plus a raised exception, as one record shape.
NoneOut == [tag |-> "none", exc |-> "", y |-> 0, m |-> 0, d |-> 0]
DateOut(y, m, d) == [tag |-> "date", exc |-> "", y |-> y, m |-> m, d |-> d]
RaiseOut(e) == [tag |-> "raise", exc |-> e, y |-> 0, m |-> 0, d |-> 0]

\* Python exception classes that occur here, with their base class.
ExcBase(e) == IF e \in {"ParserError", "IllegalMonthError"} THEN "ValueError" ELSE e

\* ---------------------------------------------------------------- calendar
MINYEAR == 1
MAXYEAR == 9999
\* A value at or above Huge stands for an integer too large for a C long.
Huge == 1000000000

isleap(y) == (y % 4 = 0) /\ ((y % 100 # 0) \/ (y % 400 = 0))

mdays(m) == CASE m = 2 -> 28
              [] m \in {4, 6, 9, 11} -> 30
              [] OTHER -> 31

\* calendar.monthrange(year, month)[1], for a month in 1..12
monthdays(y, m) == mdays(m) + (IF m = 2 /\ isleap(y) THEN 1 ELSE 0)

\* the range check datetime.date / datetime.replace make on their fields
ValidDate(y, m, d) ==
    /\ y >= MINYEAR /\ y <= MAXYEAR
    /\ m >= 1 /\ m <= 12
    /\ d >= 1 /\ d <= monthdays(y, m)

\* days from 0001-01-01 to the first day of year y
DaysBeforeYear(y) == (y - 1) * 365 + ((y - 1) \div 4) - ((y - 1) \div 100) + ((y - 1) \div 400)

RECURSIVE DaysBeforeMonth(_, _)
DaysBeforeMonth(y, m) == IF m <= 1 THEN 0 ELSE DaysBeforeMonth(y, m - 1) + monthdays(y, m - 1)

\* date.weekday(): Monday is 0
weekday(y, m, d) == (DaysBeforeYear(y) + DaysBeforeMonth(y, m) + d + 6) % 7

RECURSIVE AddDays(_, _)
AddDays(dt, k) ==
    IF k = 0 THEN dt
    ELSE IF dt.d < monthdays(dt.y, dt.m) THEN AddDays([dt EXCEPT !.d = dt.d + 1], k - 1)
    ELSE IF dt.m < 12 THEN AddDays([dt EXCEPT !.m = dt.m + 1, !.d = 1], k - 1)
    ELSE AddDays([dt EXCEPT !.y = dt.y + 1, !.m = 1, !.d = 1], k - 1)

\* ------------------------------------------------------------------ tokens
Word(s, c) == [k |-> "word", s |-> s, n |-> 0, len |-> 0, suf |-> "", comma |-> c]
Num(n, len, suf, c) == [k |-> "num", s |-> "", n |-> n, len |-> len, suf |-> suf, comma |-> c]

OrdinalSuffixes == {"st", "nd", "rd", "th"}

\* the words of the model's titles
Words == {"Saturday", "Sat", "Someday", "December", "Dec", "November",
          "February", "May", "Foo", "garbled", "pm"}

\* the digit runs of the model's titles: <<value, number of digits>>.
\* <<Huge, 20>> is the twenty-digit run 99999999999999999999.
Numerals == {<<0, 1>>, <<5, 1>>, <<5, 2>>, <<29, 2>>, <<30, 2>>, <<31, 2>>, <<300, 3>>,
             <<23, 4>>, <<1200, 4>>, <<2023, 4>>, <<2024, 4>>, <<Huge, 20>>}

\* the first four digits of a run of at least four digits
FirstFour(t) == IF t.len = 4 THEN t.n ELSE 9999

TitleNone == [isNone |-> TRUE, toks |-> <<>>]
Str(toks) == [isNone |-> FALSE, toks |-> toks]
\* Python's truth value of an Optional[str]
Truthy(title) == ~title.isNone /\ title.toks # <<>>

\* --------------------------------------- the fuzzy parser (python-dateutil)
\* dateutil.parser.parse(text, fuzzy=True) on the model's titles.  The model's
\* words hold no time unit (h, m, s), no time-zone name and no "of"; its digit
\* runs have 1 to 4 or 20 digits and are followed by an ordinal suffix, a
\* comma, a blank or the end of the text, all of which the parser skips.

\* parserinfo.weekday: Monday is 0, -1 for no weekday name
info_weekday(s) == CASE s \in {"Saturday", "Sat"} -> 5
                     [] OTHER -> -1

\* parserinfo.month: 1..12, 0 for no month name
info_month(s) == CASE s \in {"December", "Dec"} -> 12
                   [] s = "November" -> 11
                   [] s = "February" -> 2
                   [] s = "May" -> 5
                   [] OTHER -> 0

\* parserinfo.ampm: 0 am, 1 pm, -1 for neither
info_ampm(s) == IF s = "pm" THEN 1 ELSE -1

\* parser._adjust_ampm
adjust_ampm(hour, ampm) ==
    IF hour < 12 /\ ampm = 1 THEN hour + 12
    ELSE IF hour = 12 /\ ampm = 0 THEN 0
    ELSE hour

\* the parser's working state: the _ymd list with its labelled positions
\* (0 for unset), and the _result fields (-1 for None)
ParseStart == [ymd |-> <<>>, mstr |-> 0, ystr |-> 0, century |-> FALSE,
               wd |-> -1, hour |-> -1, minute |-> -1, ampm |-> -1, err |-> FALSE]

\* _ymd.append(val, label)
ymd_append(st, val, label) ==
    LET lab == IF val > 100 THEN "Y" ELSE label
        pos == Len(st.ymd) + 1
        st1 == [st EXCEPT !.ymd = Append(st.ymd, val),
                          !.century = st.century \/ (val > 100)]
    IN  CASE lab = "M" -> IF st.mstr # 0 THEN [st1 EXCEPT !.err = TRUE]
                          ELSE [st1 EXCEPT !.mstr = pos]
          [] lab = "Y" -> IF st.ystr # 0 THEN [st1 EXCEPT !.err = TRUE]
                          ELSE [st1 EXCEPT !.ystr = pos]
          [] OTHER -> st1

\* parser._parse_numeric_token at token i: the new state and the next index
parse_numeric_token(st, toks, i) ==
    LET t == toks[i]
        plain == t.suf = "" /\ ~t.comma
    IN  IF Len(st.ymd) = 3 /\ t.len \in {2, 4} /\ st.hour = -1
        THEN \* a run after a complete date is HH or HHMM
             [st |-> [st EXCEPT !.hour = IF t.len = 2 THEN t.n ELSE t.n \div 100,
                                !.minute = IF t.len = 4 THEN t.n % 100 ELSE st.minute],
              next |-> i + 1]
        ELSE IF plain /\ i < Len(toks) /\ toks[i + 1].k = "word" /\ info_ampm(toks[i + 1].s) # -1
        THEN \* "12 pm": the run is the hour and the am/pm word is consumed
             [st |-> [st EXCEPT !.hour = adjust_ampm(t.n, info_ampm(toks[i + 1].s))],
              next |-> i + 2]
        ELSE [st |-> ymd_append(st, t.n, "None"), next |-> i + 1]

\* one word of the main loop of parser._parse
parse_word(st, t) ==
    IF info_weekday(t.s) # -1 THEN [st EXCEPT !.wd = info_weekday(t.s)]
    ELSE IF info_month(t.s) # 0 THEN ymd_append(st, info_month(t.s), "M")
    ELSE IF info_ampm(t.s) # -1
    THEN IF st.ampm = -1 /\ st.hour # -1 /\ st.hour >= 0 /\ st.hour <= 12
         THEN [st EXCEPT !.hour = adjust_ampm(st.hour, info_ampm(t.s)), !.ampm = info_ampm(t.s)]
         ELSE st
    ELSE st

\* the main loop of parser._parse from token i on; a ValueError ends it
RECURSIVE parse_tokens(_, _, _)
parse_step(toks, r) == parse_tokens(r.st, toks, r.next)

parse_tokens(st, toks, i) ==
    IF st.err \/ i > Len(toks) THEN st
    ELSE IF toks[i].k = "num" THEN parse_step(toks, parse_numeric_token(st, toks, i))
    ELSE parse_tokens(parse_word(st, toks[i]), toks, i + 1)

\* _ymd.resolve_ymd(yearfirst=False, dayfirst=False): year, month, day with
\* -1 for None; err for its ValueError
YMD(y, m, d) == [y |-> y, m |-> m, d |-> d, err |-> FALSE]

resolve_ymd(st) ==
    LET v == st.ymd
        n == Len(v)
        nlab == (IF st.mstr # 0 THEN 1 ELSE 0) + (IF st.ystr # 0 THEN 1 ELSE 0)
    IN  IF (n = nlab /\ n > 0) \/ (n = 3 /\ nlab = 2)
        THEN \* _resolve_from_stridxs: the labelled positions decide
             LET dpos == IF n = 3 THEN CHOOSE p \in 1..3 : p # st.mstr /\ p # st.ystr ELSE 0
             IN  YMD(IF st.ystr # 0 THEN v[st.ystr] ELSE -1,
                     IF st.mstr # 0 THEN v[st.mstr] ELSE -1,
                     IF dpos # 0 THEN v[dpos] ELSE -1)
        ELSE IF n > 3 THEN [y |-> -1, m |-> -1, d |-> -1, err |-> TRUE]
        ELSE IF n = 0 THEN YMD(-1, -1, -1)
        ELSE IF n = 1 \/ (st.mstr # 0 /\ n = 2)
        THEN LET month == IF st.mstr # 0 THEN v[st.mstr] ELSE -1
                 other == IF st.mstr = 0 THEN v[1] ELSE v[3 - st.mstr]
             IN  IF n > 1 \/ st.mstr = 0
                 THEN IF other > 31 THEN YMD(other, month, -1) ELSE YMD(-1, month, other)
                 ELSE YMD(-1, month, -1)
        ELSE IF n = 2
        THEN IF v[1] > 31 THEN YMD(v[1], v[2], -1)
             ELSE IF v[2] > 31 THEN YMD(v[2], v[1], -1)
             ELSE YMD(-1, v[1], v[2])
        ELSE \* three members
             IF st.mstr = 1
             THEN IF v[2] > 31 THEN YMD(v[2], v[1], v[3]) ELSE YMD(v[3], v[1], v[2])
             ELSE IF st.mstr = 2
             THEN IF v[1] > 31 THEN YMD(v[1], v[2], v[3]) ELSE YMD(v[3], v[2], v[1])
             ELSE IF st.mstr = 3
             THEN IF v[2] > 31 THEN YMD(v[2], v[3], v[1]) ELSE YMD(v[1], v[3], v[2])
             ELSE IF v[1] > 31 \/ st.ystr = 1 THEN YMD(v[1], v[2], v[3])
             ELSE IF v[1] > 12 THEN YMD(v[3], v[2], v[1])
             ELSE YMD(v[3], v[1], v[2])

\* parserinfo.convertyear
convertyear(year, century_specified, thisyear) ==
    IF year < 100 /\ ~century_specified
    THEN LET c == year + (thisyear \div 100) * 100
         IN  IF c >= thisyear + 50 THEN c - 100
             ELSE IF c < thisyear - 50 THEN c + 100
             ELSE c
    ELSE year

\* parser._build_naive(res, default) followed by .date()
build_naive(y, m, d, wd, hour, minute, today) ==
    LET cyear == IF y = -1 THEN today.y ELSE y
        cmonth == IF m = -1 THEN today.m ELSE m
        \* a missing day is the default's, cut to the month's length
        day == IF d # -1 THEN d
               ELSE IF today.d > monthdays(cyear, cmonth) THEN monthdays(cyear, cmonth)
               ELSE today.d
        naive == [y |-> cyear, m |-> cmonth, d |-> day]
        moved == AddDays(naive, (wd - weekday(cyear, cmonth, day) + 7) % 7)
    IN  IF d = -1 /\ (cmonth < 1 \/ cmonth > 12) THEN RaiseOut("IllegalMonthError")
        ELSE IF cyear >= Huge \/ hour >= Huge THEN RaiseOut("OverflowError")
        ELSE IF ~ValidDate(cyear, cmonth, day) THEN RaiseOut("ValueError")
        ELSE IF hour > 23 \/ minute > 59 THEN RaiseOut("ValueError")
        ELSE IF wd # -1 /\ (d = -1 \/ d = 0)
        THEN IF moved.y > MAXYEAR THEN RaiseOut("OverflowError")
             ELSE DateOut(moved.y, moved.m, moved.d)
        ELSE DateOut(cyear, cmonth, day)

\* parser.parse wraps a ValueError of _build_naive in a ParserError
wrap_build_error(b) ==
    IF b.tag = "raise" /\ ExcBase(b.exc) = "ValueError" THEN RaiseOut("ParserError") ELSE b

\* parser.parse after _parse: st is the state at the end of the token loop and
\* r the resolved year, month and day
parse_result(st, r, today) ==
    IF r.err THEN RaiseOut("ParserError")
    ELSE IF r.y = -1 /\ r.m = -1 /\ r.d = -1 /\ st.wd = -1 /\ st.hour = -1
            /\ st.minute = -1 /\ st.ampm = -1
    THEN \* len(res) == 0: the string does not contain a date
         RaiseOut("ParserError")
    ELSE wrap_build_error(
            build_naive(IF r.y = -1 THEN -1 ELSE convertyear(r.y, st.century, today.y),
                        r.m, r.d, st.wd, st.hour, st.minute, today))

\* the end of parser._parse: resolve_ymd unless the loop raised
parse_end(st, today) ==
    parse_result(st, IF st.err THEN [y |-> -1, m |-> -1, d |-> -1, err |-> TRUE] ELSE resolve_ymd(st),
                 today)

\* dateutil.parser.parse(text, fuzzy=True).date(), with today as the default
dateutil_parse(text, today) ==
    IF text.isNone THEN RaiseOut("TypeError")
    ELSE parse_end(parse_tokens(ParseStart, text.toks, 1), today)

\* ------------------------------------------------- datetime.strptime
\* the month names "%B" and "%b" accept, 0 for a token that is none of them
FullMonth(t) == IF t.k # "word" THEN 0
                ELSE CASE t.s = "December" -> 12
                       [] t.s = "November" -> 11
                       [] t.s = "February" -> 2
                       [] t.s = "May" -> 5
                       [] OTHER -> 0

AbbrMonth(t) == IF t.k # "word" THEN 0
                ELSE CASE t.s = "Dec" -> 12
                       [] t.s = "May" -> 5
                       [] OTHER -> 0

\* "%d" accepts one digit 1-9 or two digits 01-31
DayDirectiveOk(t) == (t.len = 1 /\ t.n >= 1 /\ t.n <= 9) \/ (t.len = 2 /\ t.n >= 1 /\ t.n <= 31)

\* (mutant) a format parse that checks the day against 1..31 only
strptime_NoCalendar(day, month_name, year, fmt) ==
    IF DayDirectiveOk(day) /\ (IF fmt = "%d %B %Y" THEN FullMonth(month_name) ELSE AbbrMonth(month_name)) # 0
    THEN DateOut(year, IF fmt = "%d %B %Y" THEN FullMonth(month_name) ELSE AbbrMonth(month_name), day.n)
    ELSE RaiseOut("ValueError")

\* datetime.strptime(f"{day} {month_name} {year}", "%d %B %Y" or "%d %b %Y").date()
strptime(day, month_name, year, fmt) ==
    LET month == IF fmt = "%d %B %Y" THEN FullMonth(month_name) ELSE AbbrMonth(month_name)
    IN  IF DayDirectiveOk(day) /\ month # 0 /\ ValidDate(year, month, day.n)
        THEN DateOut(year, month, day.n)
        ELSE RaiseOut("ValueError")

\* ------------------------------------------------------------ DateParser
\* the words that end in "day" (the pattern's \w+day)
EndsInDay(t) == t.k = "word" /\ t.s \in {"Saturday", "Someday"}

\* _clean_ordinal_suffix: re.sub(r'\b(\d+)(?:st|nd|rd|th)\b', r'\1', text)
clean_ordinal_suffix(text) ==
    Str([i \in 1..Len(text.toks) |->
            IF text.toks[i].k = "num" /\ text.toks[i].suf \in OrdinalSuffixes
            THEN [text.toks[i] EXCEPT !.suf = ""]
            ELSE text.toks[i]])

\* (mutant) the except clause without OverflowError
DateutilCaught_NoOverflow == {"ValueError", "TypeError"}

\* the exception classes _try_dateutil catches
DateutilCaught == {"ValueError", "TypeError", "OverflowError"}

\* the except clause of _try_dateutil
dateutil_except(parsed) ==
    IF parsed.tag = "raise" /\ ExcBase(parsed.exc) \in DateutilCaught THEN NoneOut ELSE parsed

\* _try_dateutil
try_dateutil(text, today) == dateutil_except(dateutil_parse(text, today))

\* whether the pattern of _try_regex_pattern matches with its weekday at token i
PatternAt(toks, i) ==
    /\ i + 3 <= Len(toks)
    /\ EndsInDay(toks[i]) /\ ~toks[i].comma
    /\ toks[i + 1].k = "num" /\ toks[i + 1].suf \in OrdinalSuffixes /\ ~toks[i + 1].comma
    /\ toks[i + 3].k = "num" /\ toks[i + 3].len >= 4

\* re.search: the leftmost match, 0 for none
PatternSearch(toks) ==
    IF \E i \in 1..Len(toks) : PatternAt(toks, i)
    THEN CHOOSE i \in 1..Len(toks) : PatternAt(toks, i) /\ \A j \in 1..(i - 1) : ~PatternAt(toks, j)
    ELSE 0

\* the nested try/except of _try_regex_pattern: full and abbr are the outcomes
\* of the two strptime calls
regex_except(full, abbr) ==
    IF full.tag = "date" THEN full
    ELSE IF ExcBase(full.exc) # "ValueError" THEN full
    ELSE IF abbr.tag = "date" THEN abbr
    ELSE IF ExcBase(abbr.exc) # "ValueError" THEN abbr
    ELSE NoneOut

\* the body of "if match:" with the match's groups
regex_groups(day, month_name, year) ==
    regex_except(strptime(day, month_name, year, "%d %B %Y"),
                 strptime(day, month_name, year, "%d %b %Y"))

\* _try_regex_pattern with the match at token i (0 for no match)
regex_match(toks, i) ==
    IF i = 0 THEN NoneOut
    ELSE regex_groups(toks[i + 1], toks[i + 2], FirstFour(toks[i + 3]))

\* _try_regex_pattern
try_regex_pattern(title) == regex_match(title.toks, PatternSearch(title.toks))

\* the result of a call: what it returns or raises, the strategies it ran, and
\* the failure log after it
CallResult(out, ran, log) == [out |-> out, ran |-> ran, log |-> log]

\* (mutant) the strict pattern tried before the fuzzy parse
strategies_PatternFirst(failed, title, r1, r2, r3) ==
    IF r2.tag # "none" THEN CallResult(r2, <<2>>, failed)
    ELSE IF r1.tag # "none" THEN CallResult(r1, <<2, 1>>, failed)
    ELSE IF r3.tag # "none" THEN CallResult(r3, <<2, 1, 3>>, failed)
    ELSE CallResult(NoneOut, <<2, 1, 3>>, Append(failed, title))

\* (mutant) no return on success: the last strategy that yields a date wins
strategies_LastWins(failed, title, r1, r2, r3) ==
    IF r3.tag # "none" THEN CallResult(r3, <<1, 2, 3>>, failed)
    ELSE IF r2.tag # "none" THEN CallResult(r2, <<1, 2, 3>>, failed)
    ELSE IF r1.tag # "none" THEN CallResult(r1, <<1, 2, 3>>, failed)
    ELSE CallResult(NoneOut, <<1, 2, 3>>, Append(failed, title))

\* (mutant) a title already in the failure log is not logged again
strategies_LogOnce(failed, title, r1, r2, r3) ==
    IF r1.tag # "none" THEN CallResult(r1, <<1>>, failed)
    ELSE IF r2.tag # "none" THEN CallResult(r2, <<1, 2>>, failed)
    ELSE IF r3.tag # "none" THEN CallResult(r3, <<1, 2, 3>>, failed)
    ELSE CallResult(NoneOut, <<1, 2, 3>>,
                    IF \E j \in 1..Len(failed) : failed[j] = title THEN failed
                    ELSE Append(failed, title))

\* the strategies of parse_title_date in order: r1, r2, r3 are what strategy
\* 1, 2, 3 gives if it is run
strategies(failed, title, r1, r2, r3) ==
    IF r1.tag # "none" THEN CallResult(r1, <<1>>, failed)
    ELSE IF r2.tag # "none" THEN CallResult(r2, <<1, 2>>, failed)
    ELSE IF r3.tag # "none" THEN CallResult(r3, <<1, 2, 3>>, failed)
    ELSE CallResult(NoneOut, <<1, 2, 3>>, Append(failed, title))

\* (mutant) without the "if not title" guard
parse_title_date_NoGuard(failed, title, today) ==
    strategies(failed, title,
               try_dateutil(clean_ordinal_suffix(title), today),
               try_regex_pattern(title),
               try_dateutil(title, today))

\* (mutant) gives up on every title once a failure has been logged
parse_title_date_GivesUp(failed, title, today) ==
    IF ~Truthy(title) \/ failed # <<>> THEN CallResult(NoneOut, <<>>, failed)
    ELSE strategies(failed, title,
                    try_dateutil(clean_ordinal_suffix(title), today),
                    try_regex_pattern(title),
                    try_dateutil(title, today))

\* parse_title_date on a parser whose failure log is failed
parse_title_date(failed, title, today) ==
    IF ~Truthy(title) THEN CallResult(NoneOut, <<>>, failed)
    ELSE strategies(failed, title,
                    try_dateutil(clean_ordinal_suffix(title), today),
                    try_regex_pattern(title),
                    try_dateutil(title, today))

\* (mutant) list.append as a read of the list followed by a write of the
\* extended copy: appends made in between are overwritten
list_append_Stale(log, seen, title) == Append(seen, title)

\* self.failed_parses.append(title): one indivisible step of the interpreter
list_append(log, seen, title) == Append(log, title)

\* (mutant) the share of failures instead of successes
get_success_rate_Failures(failed, total_attempts) ==
    IF total_attempts = 0 THEN [num |-> 0, den |-> 1]
    ELSE [num |-> Len(failed) * 100, den |-> total_attempts]

\* (mutant) failures added instead of subtracted
get_success_rate_Added(failed, total_attempts) ==
    IF total_attempts = 0 THEN [num |-> 0, den |-> 1]
    ELSE [num |-> (total_attempts + Len(failed)) * 100, den |-> total_attempts]

\* get_success_rate: the float (successes / total_attempts) * 100 as the
\* fraction num / den
get_success_rate(failed, total_attempts) ==
    IF total_attempts = 0 THEN [num |-> 0, den |-> 1]
    ELSE LET failures == Len(failed)
             successes == total_attempts - failures
         IN  [num |-> successes * 100, den |-> total_attempts]

\* _clean_ordinal_suffix on the characters of a text:
\* re.sub(r'\b(\d+)(?:st|nd|rd|th)\b', r'\1', text)
IsDigit(c) == c \in {"0", "1", "2", "3", "4", "5", "6", "7", "8", "9"}
IsWordChar(c) == c # " " /\ c # ","
WordAt(text, p) == p >= 1 /\ p <= Len(text) /\ IsWordChar(text[p])

\* \b between the characters p - 1 and p
WordBoundary(text, p) == WordAt(text, p - 1) # WordAt(text, p)

\* \d+ from position i: the position after the digits
RECURSIVE DigitsEnd(_, _)
DigitsEnd(text, i) ==
    IF i <= Len(text) /\ IsDigit(text[i]) THEN DigitsEnd(text, i + 1) ELSE i

SuffixAt(text, e) ==
    /\ e + 1 <= Len(text)
    /\ <<text[e], text[e + 1]>> \in {<<"s", "t">>, <<"n", "d">>, <<"r", "d">>, <<"t", "h">>}

\* the pattern without its closing \b
PatternEnd_Unclosed(text, i, e) ==
    IF WordBoundary(text, i) /\ e > i /\ SuffixAt(text, e) THEN e + 2 ELSE 0

\* the pattern tried at position i, e being where the digits from i end: the
\* position after the match, 0 for no match (no shorter run of digits can
\* match, the suffix letters not being digits)
PatternEnd(text, i, e) ==
    IF WordBoundary(text, i) /\ e > i /\ SuffixAt(text, e) /\ WordBoundary(text, e + 2)
    THEN e + 2 ELSE 0

\* re.sub from position i on: the matches left to right, each replaced by its digits
RECURSIVE sub_from(_, _)
sub_step(text, i, m) ==
    IF m # 0 THEN SubSeq(text, i, m - 3) \o sub_from(text, m)
    ELSE <<text[i]>> \o sub_from(text, i + 1)

sub_from(text, i) ==
    IF i > Len(text) THEN <<>> ELSE sub_step(text, i, PatternEnd(text, i, DigitsEnd(text, i)))

sub_ordinal(text) == sub_from(text, 1)

\* get_failed_parses with the list object itself handed out
get_failed_parses_Alias(failed) ==
    [held |-> TRUE, shared |-> TRUE, items |-> failed, taken |-> failed, writes |-> 0]

\* get_failed_parses: return self.failed_parses.copy(), a new list object
get_failed_parses(failed) ==
    [held |-> TRUE, shared |-> FALSE, items |-> failed, taken |-> failed, writes |-> 0]

\* -------------------------------------------------------------- TagIndexer
\* a post identifier: the text pre + s, or pre + the ISO form of the date y-m-d
NoId == [pre |-> "", s |-> "", y |-> 0, m |-> 0, d |-> 0]
GivenId(s) == [pre |-> "", s |-> s, y |-> 0, m |-> 0, d |-> 0]
PostDash(s, y, m, d) == [pre |-> "post-", s |-> s, y |-> y, m |-> m, d |-> d]

\* a published timestamp: its text up to the first "T" (a date, "" if y = 0) and the rest
NoPublished == [y |-> 0, m |-> 0, d |-> 0, rest |-> ""]
Published(y, m, d) == [y |-> y, m |-> m, d |-> d, rest |-> "T10:00:00.000-08:00"]

\* hashlib.md5(title.encode()).hexdigest()[:8], for the titles hashed here
md5_8(title) ==
    CASE title.toks = <<>> -> "d41d8cd9"
      [] title.toks = <<Word("Foo", FALSE)>> -> "1356c67d"
      [] OTHER -> "b2134bfc"

\* _generate_post_id: [raise, id]
generate_post_id(post) ==
    IF post.parsed_date.tag = "date"
    THEN [raise |-> FALSE,
          id |-> PostDash("", post.parsed_date.y, post.parsed_date.m, post.parsed_date.d)]
    ELSE IF post.published_iso # NoPublished
    THEN [raise |-> FALSE,
          id |-> PostDash("", post.published_iso.y, post.published_iso.m, post.published_iso.d)]
    ELSE IF post.title.isNone
    THEN [raise |-> TRUE, id |-> NoId]
    ELSE [raise |-> FALSE, id |-> PostDash(md5_8(post.title), 0, 0, 0)]

\* str.lower and str.strip on a label, a sequence of characters
lower(label) == [i \in 1..Len(label) |-> IF label[i] = "T" THEN "t" ELSE label[i]]

RECURSIVE lstrip(_)
lstrip(label) == IF label # <<>> /\ label[1] = " " THEN lstrip(Tail(label)) ELSE label

RECURSIVE rstrip(_)
rstrip(label) ==
    IF label # <<>> /\ label[Len(label)] = " "
    THEN rstrip(SubSeq(label, 1, Len(label) - 1)) ELSE label

strip(label) == rstrip(lstrip(label))

normalized(label) == strip(lower(label))

\* the order of str: by code point, a proper prefix first
ord(c) == CASE c = " " -> 32 [] c = "T" -> 84 [] c = "f" -> 102 [] c = "t" -> 116

RECURSIVE StrLess(_, _)
StrLess(a, b) ==
    IF b = <<>> THEN FALSE
    ELSE IF a = <<>> THEN TRUE
    ELSE IF a[1] # b[1] THEN ord(a[1]) < ord(b[1])
    ELSE StrLess(Tail(a), Tail(b))

\* sorted(keys)
RECURSIVE sorted(_)
sorted(keys) ==
    IF keys = {} THEN <<>>
    ELSE LET least == CHOOSE k \in keys : \A o \in keys \ {k} : StrLess(k, o)
         IN  <<least>> \o sorted(keys \ {least})

\* index[normalized].append(post.post_id) on a defaultdict(list)
index_append(index, key, id) ==
    IF key \in DOMAIN index THEN [index EXCEPT ![key] = Append(@, id)]
    ELSE [k \in DOMAIN index \cup {key} |-> IF k = key THEN <<id>> ELSE index[k]]

\* a Counter that counts a post once per tag
counter_add_OncePerPost(frequencies, key) ==
    [k \in DOMAIN frequencies \cup {key} |-> 1]

\* frequencies[normalized] += 1 on a Counter
counter_add(frequencies, key) ==
    IF key \in DOMAIN frequencies THEN [frequencies EXCEPT ![key] = @ + 1]
    ELSE [k \in DOMAIN frequencies \cup {key} |-> IF k = key THEN 1 ELSE frequencies[k]]

\* the state of build_index in its loops
EmptyIndex == [tag_to_posts |-> <<>>, tag_frequencies |-> <<>>]

\* for label in post.labels, from the j-th label of a post with identifier id
RECURSIVE index_labels(_, _, _, _)
index_label(acc, labels, j, id, key) ==
    IF key # <<>>
    THEN index_labels([tag_to_posts |-> index_append(acc.tag_to_posts, key, id),
                       tag_frequencies |-> counter_add(acc.tag_frequencies, key)],
                      labels, j + 1, id)
    ELSE index_labels(acc, labels, j + 1, id)

index_labels(acc, labels, j, id) ==
    IF j > Len(labels) THEN acc ELSE index_label(acc, labels, j, id, normalized(labels[j]))

\* for post in posts, from the i-th of refs (references into the posts ps):
\* [raise, posts, index]
RECURSIVE index_posts(_, _, _, _)
index_post(ps, refs, i, acc, gen) ==
    IF ps[refs[i]].post_id # NoId
    THEN index_posts(ps, refs, i + 1, index_labels(acc, ps[refs[i]].labels, 1, ps[refs[i]].post_id))
    ELSE IF gen.raise
    THEN [raise |-> TRUE, posts |-> ps, index |-> acc]
    ELSE index_posts([ps EXCEPT ![refs[i]].post_id = gen.id], refs, i + 1,
                     index_labels(acc, ps[refs[i]].labels, 1, gen.id))

index_posts(ps, refs, i, acc) ==
    IF i > Len(refs) THEN [raise |-> FALSE, posts |-> ps, index |-> acc]
    ELSE index_post(ps, refs, i, acc, generate_post_id(ps[refs[i]]))

\* build_index(posts): the TagIndex it returns, and the posts with the
\* identifiers it wrote; AttributeError when it hashes a title that is None
TagIndex(done) ==
    [raise |-> done.raise,
     posts |-> done.posts,
     tag_to_posts |-> done.index.tag_to_posts,
     tag_frequencies |-> done.index.tag_frequencies,
     all_tags |-> IF done.raise THEN <<>> ELSE sorted(DOMAIN done.index.tag_to_posts)]

build_index(ps, refs) == TagIndex(index_posts(ps, refs, 1, EmptyIndex))

\* --------------------------------------------------------- ImageDownloader
\* HTML content is the sequence of its src/href values; a value is a sequence
\* of pieces of text, a URL likewise; a local path is one piece
Text(s) == [t |-> "text", s |-> s, ext |-> "", folder |-> "", y |-> 0, m |-> 0, d |-> 0,
            abs |-> FALSE]

image_retry_count == 3

MONTH_FOLDERS ==
    <<"jan", "feb", "mar", "apr", "may", "jun", "jul", "aug", "sep", "oct", "nov", "dec">>

UrlA == <<Text("https://blogger.googleusercontent.com/img/a.jpg")>>
UrlAImgmax == <<Text("https://blogger.googleusercontent.com/img/a.jpg"), Text("?imgmax=800")>>
UrlB == <<Text("https://blogger.googleusercontent.com/img/b.jpg")>>

\* hashlib.md5(url.encode()).hexdigest()[:8]
md5_url(url) ==
    CASE url = UrlA -> "57dc13bf"
      [] url = UrlAImgmax -> "86df29d6"
      [] url = UrlB -> "f9da2c16"

\* images_dir / month_folder / _generate_filename(url, post_date)
local_path(url, post_date) ==
    [t |-> "path", s |-> md5_url(url), ext |-> ".jpg", folder |-> MONTH_FOLDERS[post_date.m],
     y |-> post_date.y, m |-> post_date.m, d |-> post_date.d, abs |-> TRUE]

\* _get_relative_path: the path from the year's directory on
get_relative_path(path) == [path EXCEPT !.abs = FALSE]

\* str.replace(url, relative_path) inside one value
RECURSIVE replace_value(_, _, _)
replace_value(value, url, rel) ==
    IF Len(value) < Len(url) THEN value
    ELSE IF SubSeq(value, 1, Len(url)) = url
    THEN <<rel>> \o replace_value(SubSeq(value, Len(url) + 1, Len(value)), url, rel)
    ELSE <<value[1]>> \o replace_value(Tail(value), url, rel)

\* updated_html.replace(url, relative_path)
replace(html, url, rel) == [k \in 1..Len(html) |-> replace_value(html[k], url, rel)]

\* _extract_image_urls: the values of the content, each once, in order
RECURSIVE unique_urls(_, _)
unique_urls(urls, n) ==
    IF n = 0 THEN <<>>
    ELSE IF \E k \in 1..(n - 1) : urls[k] = urls[n] THEN unique_urls(urls, n - 1)
    ELSE Append(unique_urls(urls, n - 1), urls[n])

extract_image_urls(html) == unique_urls(html, Len(html))

\* clean_html: re.sub(r'\?imgmax=\d+', '', ...) and re.sub(r'&imgmax=\d+', '', ...)
IsImgmax(piece) == piece.s \in {"?imgmax=800", "&imgmax=800"}
drop_imgmax(value) == SelectSeq(value, LAMBDA piece : ~IsImgmax(piece))
clean_html(html) == [k \in 1..Len(html) |-> drop_imgmax(html[k])]

\* after a failed request: give up two attempts early
retry_Once(attempt) == attempt < image_retry_count - 3

\* after a failed request: if attempt < self.retry_count - 1 (sleep, and go on)
retry(attempt) == attempt < image_retry_count - 1

\* download_cache[url] = str(local_path)
cache_put(cache, url, path) ==
    [u \in DOMAIN cache \cup {url} |-> IF u = url THEN path ELSE cache[u]]

\* -------------------------------------------------------------------- main
\* the references (positions in ps) of the posts that have a date
Dated(ps) == {i \in 1..Len(ps) : ps[i].parsed_date.tag = "date"}

\* step 3 with every post appended to a group
has_date_Always(ps, i) == TRUE

\* step 3: if post.parsed_date
has_date(ps, i) == i \in Dated(ps)

\* step 3: posts_by_year[post.parsed_date.year].append(post), in the order of posts
group_years(ps) == {ps[i].parsed_date.y : i \in {j \in 1..Len(ps) : has_date(ps, j)}}

RECURSIVE year_group(_, _, _)
year_group(ps, y, n) ==
    IF n = 0 THEN <<>>
    ELSE IF has_date(ps, n) /\ ps[n].parsed_date.y = y
    THEN Append(year_group(ps, y, n - 1), n)
    ELSE year_group(ps, y, n - 1)

group_by_year(ps, years) == [y \in years |-> year_group(ps, y, Len(ps))]

\* step 4: the posts with a date, in the order of posts
RECURSIVE dated_refs(_, _)
dated_refs(ps, n) ==
    IF n = 0 THEN <<>>
    ELSE IF n \in Dated(ps) THEN Append(dated_refs(ps, n - 1), n)
    ELSE dated_refs(ps, n - 1)

\* sorted(posts_by_year.keys())
RECURSIVE sorted_years(_)
sorted_years(years) ==
    IF years = {} THEN <<>>
    ELSE LET least == CHOOSE y \in years : \A o \in years : y <= o
         IN  <<least>> \o sorted_years(years \ {least})

\* date.__lt__
DateLess(a, b) ==
    \/ a.y < b.y
    \/ a.y = b.y /\ a.m < b.m
    \/ a.y = b.y /\ a.m = b.m /\ a.d < b.d

RemoveAt(refs, k) == SubSeq(refs, 1, k - 1) \o SubSeq(refs, k + 1, Len(refs))

\* a sort that puts the last of the posts with the least date first
RECURSIVE sort_Unstable(_, _)
sort_Unstable(refs, ps) ==
    IF refs = <<>> THEN <<>>
    ELSE LET k == CHOOSE k \in 1..Len(refs) :
                      /\ \A j \in 1..Len(refs) :
                             ~DateLess(ps[refs[j]].parsed_date, ps[refs[k]].parsed_date)
                      /\ \A j \in (k + 1)..Len(refs) :
                             DateLess(ps[refs[k]].parsed_date, ps[refs[j]].parsed_date)
         IN  <<refs[k]>> \o sort_Unstable(RemoveAt(refs, k), ps)

\* year_posts.sort(key=lambda p: p.parsed_date): list.sort is stable, so the
\* first of the posts with the least date comes first
RECURSIVE sort(_, _)
sort(refs, ps) ==
    IF refs = <<>> THEN <<>>
    ELSE LET k == CHOOSE k \in 1..Len(refs) :
                      /\ \A j \in 1..Len(refs) :
                             ~DateLess(ps[refs[j]].parsed_date, ps[refs[k]].parsed_date)
                      /\ \A j \in 1..(k - 1) :
                             DateLess(ps[refs[k]].parsed_date, ps[refs[j]].parsed_date)
         IN  <<refs[k]>> \o sort(RemoveAt(refs, k), ps)

\* process_posts fetching for no post
with_images_None(refs, ps) == <<>>

\* process_posts: the posts whose images it fetches, in the order of the list
RECURSIVE with_images(_, _)
with_images(refs, ps) ==
    IF refs = <<>> THEN <<>>
    ELSE IF ps[refs[1]].has_images /\ refs[1] \in Dated(ps)
    THEN <<refs[1]>> \o with_images(Tail(refs), ps)
    ELSE with_images(Tail(refs), ps)

\* generate_year_report, the "Date Parsing Failures" section: the titles it
\* lists and the number in its "... and N more" line (0: no such line)
ReportCap == 10

NoReport == [written |-> FALSE, section |-> FALSE, count |-> 0, titles |-> <<>>, more |-> 0]

failures_section_All(failed) ==
    [written |-> TRUE, section |-> failed # <<>>, count |-> Len(failed),
     titles |-> failed, more |-> 0]

failures_section(failed) ==
    IF failed = <<>>
    THEN [written |-> TRUE, section |-> FALSE, count |-> 0, titles |-> <<>>, more |-> 0]
    ELSE [written |-> TRUE, section |-> TRUE, count |-> Len(failed),
          titles |-> SubSeq(failed, 1, IF Len(failed) < ReportCap THEN Len(failed) ELSE ReportCap),
          more |-> IF Len(failed) > ReportCap THEN Len(failed) - ReportCap ELSE 0]

generate_year_report(failed) == failures_section(get_failed_parses(failed).items)

\* ------------------------------------------------------------ the inputs
W(s) == Word(s, FALSE)
N(n, len) == Num(n, len, "", FALSE)
Ord(n, len, suf) == Num(n, len, suf, FALSE)

\* the dates the run may take place on (the fuzzy parser's default date)
Todays == {[y |-> 2026, m |-> 11, d |-> 5], [y |-> 2024, m |-> 1, d |-> 31]}

WordToks == {Word(s, c) : s \in Words, c \in BOOLEAN}
NumToks == {Num(n[1], n[2], suf, c) : n \in Numerals, suf \in {"", "th"}, c \in BOOLEAN}

\* titles of one or two arbitrary tokens
ShortTitles == {Str(<<a>>) : a \in WordToks \cup NumToks}
               \cup {Str(<<a, b>>) : a \in WordToks \cup NumToks, b \in WordToks \cup NumToks}

\* titles of the shape "<word> <day> <month>[,] <year>", with or without an
\* ordinal suffix on the day, a real month name, or a trailing token
ShapedTitles ==
    {Str(<<W(w), Num(d[1], d[2], suf, FALSE), Word(m, c), N(y[1], y[2])>> \o tail) :
        w \in {"Saturday", "Someday", "Foo"},
        d \in {<<0, 1>>, <<5, 1>>, <<5, 2>>, <<29, 2>>, <<30, 2>>, <<31, 2>>, <<300, 3>>},
        suf \in {"", "th"},
        m \in {"December", "Dec", "November", "February", "May", "Foo"},
        c \in BOOLEAN,
        y \in {<<23, 4>>, <<100, 4>>, <<2023, 4>>, <<2024, 4>>, <<Huge, 20>>},
        tail \in {<<>>, <<W("pm")>>, <<N(1200, 4)>>}}

AllTitles == {TitleNone, Str(<<>>)} \cup ShortTitles \cup ShapedTitles

\* the titles of the posts of a batch, and of repeated calls on one parser
Saturday30thDecember2023 == Str(<<W("Saturday"), Ord(30, 2, "th"), Word("December", TRUE), N(2023, 4)>>)
Saturday31thNovember2023 == Str(<<W("Saturday"), Ord(31, 2, "th"), Word("November", TRUE), N(2023, 4)>>)
GarbledFoo == Str(<<W("garbled"), W("Foo")>>)
Foo == Str(<<W("Foo")>>)
BatchTitles == {TitleNone, Str(<<>>), Saturday30thDecember2023, Saturday31thNovember2023,
                GarbledFoo, Foo}

\* ------------------------------------------------------------------- state
VARIABLES
    today,          \* the date of the run
    failed_parses,  \* DateParser.failed_parses
    calls,          \* every parse_title_date call so far: title, outcome, strategies run
    last_rate,      \* what get_success_rate returned, if it was the last call on the parser
    posts,          \* main: the posts, each with its title and parsed_date
    pc,             \* main: the step it is at
    successful_parses,  \* main: the count it prints
    success_rate,       \* main: the rate it prints
    snapshot,           \* the list a caller holds from get_failed_parses
    text,               \* _clean_ordinal_suffix: the text it is given
    cleaned,            \* _clean_ordinal_suffix: what it gave, once and applied again
    posts_by_year,      \* main: the groups, lists of references into posts
    years_found,        \* main: the sorted years
    year,               \* main: the position in years_found of the year in process_year
    year_posts,         \* process_year: its list of posts
    tag_index,          \* the TagIndex build_index returned last
    handled,            \* the stages run so far, each with the posts handed to it
    report,             \* generate_year_report: the failures section written last
    download_cache,     \* ImageDownloader.download_cache: URL -> local path
    failed_downloads,   \* ImageDownloader.failed_downloads
    disk,               \* the files under images_dir
    download,           \* the _download_image call under way, or the last one
    workers             \* the threads calling parse_title_date on one DateParser

vars == <<today, failed_parses, calls, last_rate, posts, pc, successful_parses, success_rate,
          snapshot, text, cleaned, posts_by_year, years_found, year, year_posts, tag_index,
          handled, report, download_cache, failed_downloads, disk, download, workers>>

NoRate == [called |-> FALSE, total |-> 0, num |-> 0, den |-> 1]
NoClean == [done |-> FALSE, once |-> <<>>, twice |-> <<>>]
cleanvars == <<text, cleaned>>
pipevars == <<posts_by_year, years_found, year, year_posts, tag_index, handled, report>>
imgvars == <<download_cache, failed_downloads, disk, download>>
mainvars == <<posts, pc, successful_parses, success_rate, cleanvars, pipevars, imgvars, workers>>

NoIndex == [raise |-> FALSE, posts |-> <<>>, tag_to_posts |-> <<>>, tag_frequencies |-> <<>>,
            all_tags |-> <<>>]

\* no _download_image call yet
NoDownload ==
    [phase |-> "idle", post |-> 0, j |-> 0, url |-> <<>>, attempt |-> 0, requests |-> 0,
     sleeps |-> 0, appended |-> 0, via |-> "", updated_html |-> <<>>]

\* no ImageDownloader, no threads
NoDownloader ==
    /\ download_cache = <<>>
    /\ failed_downloads = <<>>
    /\ disk = {}
    /\ download = NoDownload
    /\ workers = <<>>

\* main before step 3
NotGrouped ==
    /\ posts_by_year = <<>>
    /\ years_found = <<>>
    /\ year = 0
    /\ year_posts = <<>>
    /\ tag_index = NoIndex
    /\ handled = <<>>
    /\ report = NoReport

RateOf(total, r) == [called |-> TRUE, total |-> total, num |-> r.num, den |-> r.den]

Call(title, r) == [title |-> title, out |-> r.out, ran |-> r.ran]

\* a list held by a caller: its items now, the log when it was returned (taken),
\* whether it is the parser's own list object (shared), and how often its
\* holder has written to it
NoSnapshot == [held |-> FALSE, shared |-> FALSE, items |-> <<>>, taken |-> <<>>, writes |-> 0]

\* the parser's list after a write to it, as seen through a held list
SeenThrough(snap, log) == IF snap.shared THEN [snap EXCEPT !.items = log] ELSE snap

\* DateParser() with nobody running main
Init ==
    /\ today \in Todays
    /\ failed_parses = <<>>
    /\ calls = <<>>
    /\ last_rate = NoRate
    /\ posts = <<>>
    /\ pc = "idle"
    /\ successful_parses = 0
    /\ success_rate = NoRate
    /\ snapshot = NoSnapshot
    /\ text = <<>>
    /\ cleaned = NoClean
    /\ NotGrouped
    /\ NoDownloader

\* the effect of a parse_title_date call with result r on the parser
Returned(title, r) ==
    /\ failed_parses' = r.log
    /\ calls' = Append(calls, Call(title, r))

\* a caller invokes parse_title_date(title)
ParseTitleDate(title) ==
    /\ Returned(title, parse_title_date(failed_parses, title, today))
    /\ last_rate' = NoRate
    /\ snapshot' = SeenThrough(snapshot, failed_parses')
    /\ UNCHANGED <<today, mainvars>>

\* a caller invokes get_success_rate(total_attempts)
GetSuccessRate(total_attempts) ==
    /\ last_rate' = RateOf(total_attempts, get_success_rate(failed_parses, total_attempts))
    /\ UNCHANGED <<today, failed_parses, calls, mainvars, snapshot>>

Next ==
    \/ Len(calls) < MaxCalls /\ \E title \in BatchTitles : ParseTitleDate(title)
    \/ \E total_attempts \in 0..MaxAttempts \cup {10} : GetSuccessRate(total_attempts)

Spec == Init /\ [][Next]_vars

\* a caller invokes get_failed_parses() and keeps the list
GetFailedParses ==
    /\ snapshot' = get_failed_parses(failed_parses)
    /\ last_rate' = NoRate
    /\ UNCHANGED <<today, failed_parses, calls, mainvars>>

\* what a holder may do to a Python list: append, pop, clear
ListWrites(items) ==
    {Append(items, Foo), <<>>} \cup (IF items = <<>> THEN {} ELSE {SubSeq(items, 1, Len(items) - 1)})

\* the holder writes to the list it was given; the parser's list follows only
\* if it is the same object
WriteReturned(items) ==
    /\ snapshot' = [snapshot EXCEPT !.items = items, !.writes = @ + 1]
    /\ failed_parses' = IF snapshot.shared THEN items ELSE failed_parses
    /\ last_rate' = NoRate
    /\ UNCHANGED <<today, calls, mainvars>>

\* the parser with callers that take and write to the failure list
NextLog ==
    \/ Len(calls) < MaxCalls /\ \E title \in BatchTitles : ParseTitleDate(title)
    \/ GetFailedParses
    \/ snapshot.held /\ snapshot.writes < MaxWrites
          /\ \E items \in ListWrites(snapshot.items) : WriteReturned(items)

SpecLog == Init /\ [][NextLog]_vars

\* one call on a fresh parser, over every title of the model
NextOne == calls = <<>> /\ \E title \in AllTitles : ParseTitleDate(title)

SpecOne == Init /\ [][NextOne]_vars

\* _clean_ordinal_suffix on every text of up to MaxText characters
Chars == {"1", "3", "s", "t", "r", "d", "P", " "}
Texts == UNION {[1..n -> Chars] : n \in 0..MaxText}

InitClean ==
    /\ today = [y |-> 2026, m |-> 11, d |-> 5]
    /\ failed_parses = <<>>
    /\ calls = <<>>
    /\ last_rate = NoRate
    /\ posts = <<>>
    /\ pc = "idle"
    /\ successful_parses = 0
    /\ success_rate = NoRate
    /\ snapshot = NoSnapshot
    /\ text \in Texts
    /\ cleaned = NoClean
    /\ NotGrouped
    /\ NoDownloader

CleanOrdinalSuffix ==
    /\ ~cleaned.done
    /\ cleaned' = [done |-> TRUE, once |-> sub_ordinal(text),
                   twice |-> sub_ordinal(sub_ordinal(text))]
    /\ UNCHANGED <<today, failed_parses, calls, last_rate, posts, pc, successful_parses,
                   success_rate, snapshot, text, pipevars, imgvars, workers>>

SpecClean == InitClean /\ [][CleanOrdinalSuffix]_vars

\* main, steps 1 and 2: the posts as extracted, then a date for each title
InitMain ==
    /\ today \in Todays
    /\ failed_parses = <<>>
    /\ calls = <<>>
    /\ last_rate = NoRate
    /\ posts \in UNION {[1..n -> {[title |-> t, parsed_date |-> NoneOut] : t \in BatchTitles}] : n \in 0..MaxPosts}
    /\ pc = "step2"
    /\ successful_parses = 0
    /\ success_rate = NoRate
    /\ snapshot = NoSnapshot
    /\ text = <<>>
    /\ cleaned = NoClean
    /\ NotGrouped
    /\ NoDownloader

\* for post in posts: post.parsed_date = date_parser.parse_title_date(post.title)
\* main line 139 for post i, r being what parse_title_date gives; an
\* exception ends main in its handler (sys.exit(1))
AssignParsedDate(i, r) ==
    /\ Returned(posts[i].title, r)
    /\ IF r.out.tag = "raise"
       THEN pc' = "exit1" /\ posts' = posts
       ELSE pc' = pc /\ posts' = [posts EXCEPT ![i].parsed_date = r.out]

MainParseDate ==
    /\ pc = "step2"
    /\ Len(calls) < Len(posts)
    /\ AssignParsedDate(Len(calls) + 1,
                        parse_title_date(failed_parses, posts[Len(calls) + 1].title, today))
    /\ UNCHANGED <<today, last_rate, successful_parses, success_rate, snapshot, cleanvars,
                   pipevars, imgvars, workers>>

\* successful_parses and success_rate, as printed
MainReport ==
    /\ pc = "step2"
    /\ Len(calls) = Len(posts)
    /\ successful_parses' = Cardinality({i \in 1..Len(posts) : posts[i].parsed_date.tag = "date"})
    /\ success_rate' = RateOf(Len(posts), get_success_rate(failed_parses, Len(posts)))
    /\ pc' = "step3"
    /\ UNCHANGED <<today, failed_parses, calls, last_rate, posts, snapshot, cleanvars,
                   pipevars, imgvars, workers>>

NextMain == MainParseDate \/ MainReport

SpecMain == InitMain /\ [][NextMain]_vars

\* main from step 1 to its end, over posts with and without images
Saturday5thMay2023 == Str(<<W("Saturday"), Ord(5, 1, "th"), Word("May", TRUE), N(2023, 4)>>)
Saturday5thMay2024 == Str(<<W("Saturday"), Ord(5, 1, "th"), Word("May", TRUE), N(2024, 4)>>)
PipeTitles == {Saturday30thDecember2023, Saturday5thMay2023, Saturday5thMay2024, Foo, Str(<<>>)}

\* the labels of posts: "T", " t ", "f", " "
Travel == <<"T">>
travel == <<" ", "t", " ">>
food == <<"f">>
Blank == <<" ">>

PipePosts ==
    {[title |-> t, parsed_date |-> NoneOut, post_id |-> NoId, published_iso |-> NoPublished,
      labels |-> <<Travel>>, has_images |-> h] : t \in PipeTitles, h \in BOOLEAN}

InitPipe ==
    /\ today \in Todays
    /\ failed_parses = <<>>
    /\ calls = <<>>
    /\ last_rate = NoRate
    /\ posts \in UNION {[1..n -> PipePosts] : n \in 0..MaxPipePosts}
    /\ pc = "step2"
    /\ successful_parses = 0
    /\ success_rate = NoRate
    /\ snapshot = NoSnapshot
    /\ text = <<>>
    /\ cleaned = NoClean
    /\ NotGrouped
    /\ NoDownloader

Stage(stage, y, refs) == [stage |-> stage, year |-> y, refs |-> refs]

parservars == <<today, failed_parses, calls, last_rate, snapshot>>
reportvars == <<successful_parses, success_rate, cleanvars, imgvars, workers>>

\* main line 156: if not years_found
after_grouping_Always(years) == "step4"

after_grouping(years) == IF years = <<>> THEN "done" ELSE "step4"

\* step 3: group the posts by year; without a year, warn and return
Grouped(groups, years, to) ==
    /\ posts_by_year' = groups
    /\ years_found' = years
    /\ pc' = to
    /\ handled' = IF to = "done" THEN Append(handled, Stage("warning", 0, <<>>)) ELSE handled

MainGroup ==
    /\ pc = "step3"
    /\ Grouped(group_by_year(posts, group_years(posts)), sorted_years(group_years(posts)),
               after_grouping(sorted_years(group_years(posts))))
    /\ UNCHANGED <<parservars, reportvars, posts, year, year_posts, tag_index, report>>

\* step 4: clean_html and extract_preview for the posts with a date
MainContent ==
    /\ pc = "step4"
    /\ handled' = Append(handled, Stage("content", 0, dated_refs(posts, Len(posts))))
    /\ pc' = IF years_found = <<>> THEN "step6" ELSE "sort"
    /\ year' = IF years_found = <<>> THEN 0 ELSE 1
    /\ UNCHANGED <<parservars, reportvars, posts, posts_by_year, years_found, year_posts,
                   tag_index, report>>

\* process_year: year_posts.sort(...), in place on the group
ProcessYearSort ==
    /\ pc = "sort"
    /\ year_posts' = sort(posts_by_year[years_found[year]], posts)
    /\ posts_by_year' = [posts_by_year EXCEPT ![years_found[year]] = year_posts']
    /\ pc' = "images"
    /\ UNCHANGED <<parservars, reportvars, posts, years_found, year, tag_index, handled, report>>

\* process_year: image_downloader.process_posts(year_posts) if a post has images
ProcessYearImages ==
    /\ pc = "images"
    /\ handled' = IF \E k \in 1..Len(year_posts) : posts[year_posts[k]].has_images
                  THEN Append(handled, Stage("images", years_found[year],
                                             with_images(year_posts, posts)))
                  ELSE handled
    /\ pc' = "tags"
    /\ UNCHANGED <<parservars, reportvars, posts, posts_by_year, years_found, year, year_posts,
                   tag_index, report>>

\* process_year: tag_indexer.build_index(year_posts)
Indexed(idx) ==
    /\ tag_index' = idx
    /\ posts' = idx.posts
    /\ pc' = IF idx.raise THEN "exit1" ELSE "json"

ProcessYearTags ==
    /\ pc = "tags"
    /\ Indexed(build_index(posts, year_posts))
    /\ handled' = Append(handled, Stage("tags", years_found[year], year_posts))
    /\ UNCHANGED <<parservars, reportvars, posts_by_year, years_found, year, year_posts, report>>

\* process_year: json_gen.generate(year_posts, tag_index)
ProcessYearJson ==
    /\ pc = "json"
    /\ handled' = Append(handled, Stage("json", years_found[year], year_posts))
    /\ pc' = "html"
    /\ UNCHANGED <<parservars, reportvars, posts, posts_by_year, years_found, year, year_posts,
                   tag_index, report>>

\* process_year: html_gen.generate_reflection_page(year, year_posts, tag_index)
ProcessYearHtml ==
    /\ pc = "html"
    /\ handled' = Append(handled, Stage("html", years_found[year], year_posts))
    /\ pc' = "report"
    /\ UNCHANGED <<parservars, reportvars, posts, posts_by_year, years_found, year, year_posts,
                   tag_index, report>>

\* process_year: generate_year_report(...); then the next year, or step 6
ProcessYearReport ==
    /\ pc = "report"
    /\ report' = generate_year_report(failed_parses)
    /\ pc' = IF year < Len(years_found) THEN "sort" ELSE "step6"
    /\ year' = IF year < Len(years_found) THEN year + 1 ELSE year
    /\ UNCHANGED <<parservars, reportvars, posts, posts_by_year, years_found, year_posts,
                   tag_index, handled>>

\* step 6: html_gen.generate_index_page(years_found)
MainIndexPage ==
    /\ pc = "step6"
    /\ handled' = Append(handled, Stage("index", 0, <<>>))
    /\ pc' = "done"
    /\ UNCHANGED <<parservars, reportvars, posts, posts_by_year, years_found, year, year_posts,
                   tag_index, report>>

NextPipe ==
    \/ MainParseDate
    \/ MainReport
    \/ MainGroup
    \/ MainContent
    \/ ProcessYearSort
    \/ ProcessYearImages
    \/ ProcessYearTags
    \/ ProcessYearJson
    \/ ProcessYearHtml
    \/ ProcessYearReport
    \/ MainIndexPage

SpecPipe == InitPipe /\ [][NextPipe]_vars

\* build_index on its own, over posts that came with and without an identifier
IdShapes ==
    {[post_id |-> GivenId("a"), parsed_date |-> DateOut(2023, 12, 30),
      published_iso |-> Published(2023, 12, 30), title |-> Saturday30thDecember2023],
     [post_id |-> GivenId("b"), parsed_date |-> NoneOut,
      published_iso |-> NoPublished, title |-> Foo],
     [post_id |-> NoId, parsed_date |-> DateOut(2023, 12, 30),
      published_iso |-> Published(2024, 1, 2), title |-> Saturday30thDecember2023],
     [post_id |-> NoId, parsed_date |-> DateOut(2023, 5, 5),
      published_iso |-> NoPublished, title |-> Saturday5thMay2023],
     [post_id |-> NoId, parsed_date |-> NoneOut,
      published_iso |-> Published(2023, 12, 30), title |-> Foo],
     [post_id |-> NoId, parsed_date |-> NoneOut,
      published_iso |-> NoPublished, title |-> Foo],
     [post_id |-> NoId, parsed_date |-> NoneOut,
      published_iso |-> NoPublished, title |-> GarbledFoo],
     [post_id |-> NoId, parsed_date |-> NoneOut,
      published_iso |-> NoPublished, title |-> TitleNone]}

LabelLists ==
    {<<>>, <<Travel>>, <<Travel, travel>>, <<food, Travel>>, <<Blank>>, <<Travel, Travel>>,
     <<travel, Blank, food>>}

TagPosts ==
    {[title |-> shape.title, parsed_date |-> shape.parsed_date, post_id |-> shape.post_id,
      published_iso |-> shape.published_iso, labels |-> labels, has_images |-> FALSE] :
        shape \in IdShapes, labels \in LabelLists}

\* the identifiers of the export are those of different entries
InitTags ==
    /\ today \in Todays
    /\ failed_parses = <<>>
    /\ calls = <<>>
    /\ last_rate = NoRate
    /\ posts \in UNION {[1..n -> TagPosts] : n \in 0..MaxTagPosts}
    /\ \A i, j \in 1..Len(posts) :
           i # j /\ posts[i].post_id # NoId => posts[i].post_id # posts[j].post_id
    /\ pc = "build_index"
    /\ successful_parses = 0
    /\ success_rate = NoRate
    /\ snapshot = NoSnapshot
    /\ text = <<>>
    /\ cleaned = NoClean
    /\ NotGrouped
    /\ NoDownloader

\* tag_indexer.build_index(posts)
BuildIndex ==
    /\ pc = "build_index"
    /\ tag_index' = build_index(posts, [i \in 1..Len(posts) |-> i])
    /\ posts' = tag_index'.posts
    /\ pc' = IF tag_index'.raise THEN "raised" ELSE "indexed"
    /\ UNCHANGED <<parservars, reportvars, posts_by_year, years_found, year, year_posts,
                   handled, report>>

SpecTags == InitTags /\ [][BuildIndex]_vars

\* generate_year_report after a run with many titles that gave no date
GenerateYearReport ==
    /\ report' = generate_year_report(failed_parses)
    /\ UNCHANGED <<parservars, reportvars, posts, pc, posts_by_year, years_found, year,
                   year_posts, tag_index, handled>>

NextReport ==
    /\ ~report.written
    /\ \/ Len(calls) < MaxFailed /\ \E title \in {Foo, GarbledFoo} : ParseTitleDate(title)
       \/ GenerateYearReport

SpecReport == Init /\ [][NextReport]_vars

\* several workers call parse_title_date on one DateParser, their steps
\* interleaved
IdleWorker == [phase |-> "idle", title |-> TitleNone, seen |-> <<>>, at |-> 0]

InitWorkers ==
    /\ today \in Todays
    /\ failed_parses = <<>>
    /\ calls = <<>>
    /\ last_rate = NoRate
    /\ posts = <<>>
    /\ pc = "idle"
    /\ successful_parses = 0
    /\ success_rate = NoRate
    /\ snapshot = NoSnapshot
    /\ text = <<>>
    /\ cleaned = NoClean
    /\ NotGrouped
    /\ download_cache = <<>>
    /\ failed_downloads = <<>>
    /\ disk = {}
    /\ download = NoDownload
    /\ workers = [w \in 1..MaxWorkers |-> IdleWorker]

\* the calls begun so far, returned or not
Begun == Len(calls) + Cardinality({w \in 1..MaxWorkers : workers[w].phase = "logging"})

notworkervars == <<today, last_rate, snapshot, posts, pc, successful_parses, success_rate,
                   cleanvars, pipevars, imgvars>>

\* the worker w runs the guard and the strategies of parse_title_date(title),
\* which touch nothing shared: it returns, or is about to log the failure
WorkerParse(w, title, r) ==
    /\ workers[w].phase = "idle"
    /\ IF r.log = <<>>
       THEN /\ calls' = Append(calls, Call(title, r))
            /\ workers' = [workers EXCEPT ![w] = IdleWorker]
       ELSE /\ workers' = [workers EXCEPT ![w] = [phase |-> "logging", title |-> title,
                                                  seen |-> failed_parses, at |-> 0]]
            /\ UNCHANGED calls
    /\ UNCHANGED <<failed_parses, notworkervars>>

\* the worker w runs self.failed_parses.append(title) and returns None
WorkerAppend(w) ==
    /\ workers[w].phase = "logging"
    /\ failed_parses' = list_append(failed_parses, workers[w].seen, workers[w].title)
    /\ calls' = Append(calls, Call(workers[w].title, CallResult(NoneOut, <<1, 2, 3>>, <<>>)))
    /\ workers' = [workers EXCEPT ![w].phase = "idle", ![w].at = Len(failed_parses')]
    /\ UNCHANGED notworkervars

NextWorkers ==
    \/ Begun < MaxCalls /\ \E w \in 1..MaxWorkers : \E title \in BatchTitles :
          WorkerParse(w, title, parse_title_date(<<>>, title, today))
    \/ \E w \in 1..MaxWorkers : WorkerAppend(w)

SpecWorkers == InitWorkers /\ [][NextWorkers]_vars

\* one ImageDownloader on the posts of a year: process_posts, the network
\* answering each request as it likes
Contents ==
    {<<>>, <<UrlA>>, <<UrlAImgmax>>, <<UrlA, UrlB>>, <<UrlB, UrlA>>, <<UrlA, UrlA>>}

\* a post as the export gave it (original), after _extract_post_data and step 4
ImgPosts ==
    {[parsed_date |-> date, original |-> html, image_urls |-> extract_image_urls(html),
      has_images |-> extract_image_urls(html) # <<>>, content_html |-> clean_html(html),
      results |-> <<>>] :
        date \in {DateOut(2023, 5, 5), DateOut(2023, 12, 30)}, html \in Contents}

\* the posts sorted by date, and possibly a file left by an earlier run
InitImages ==
    /\ today \in Todays
    /\ failed_parses = <<>>
    /\ calls = <<>>
    /\ last_rate = NoRate
    /\ posts \in UNION {[1..n -> ImgPosts] : n \in 0..MaxImgPosts}
    /\ \A a, b \in 1..Len(posts) : a < b => ~DateLess(posts[b].parsed_date, posts[a].parsed_date)
    /\ pc = "process_posts"
    /\ successful_parses = 0
    /\ success_rate = NoRate
    /\ snapshot = NoSnapshot
    /\ text = <<>>
    /\ cleaned = NoClean
    /\ NotGrouped
    /\ download_cache = <<>>
    /\ failed_downloads = <<>>
    /\ disk \in {{}, {local_path(UrlB, DateOut(2023, 12, 30))}}
    /\ download = NoDownload
    /\ workers = <<>>

\* for post in posts: if post.has_images and post.parsed_date; 0 after the last
NextPost(i) ==
    IF \E n \in (i + 1)..Len(posts) : posts[n].has_images
    THEN CHOOSE n \in (i + 1)..Len(posts) :
             posts[n].has_images /\ \A o \in (i + 1)..(n - 1) : ~posts[o].has_images
    ELSE 0

\* the post and the position in its image_urls of the next _download_image call
SamePost == download.post > 0 /\ download.j < Len(posts[download.post].image_urls)
NextI == IF SamePost THEN download.post ELSE NextPost(download.post)
NextJ == IF SamePost THEN download.j + 1 ELSE 1

notimgvars == <<parservars, successful_parses, success_rate, cleanvars, workers, pipevars>>

\* _download_image has returned path (found) or None for the j-th URL of the
\* post i: _process_post_images goes on with html, and after its last URL
\* process_posts assigns post.content_html
UrlDone(i, j, url, found, path, html) ==
    posts' = [posts EXCEPT
                 ![i].results = Append(@, [url |-> url, found |-> found, path |-> path]),
                 ![i].content_html = IF j = Len(posts[i].image_urls) THEN html ELSE @]

\* _download_image finds the URL in the cache, or its file on disk, or starts requesting
Begin(i, j, url, path, html) ==
    IF url \in DOMAIN download_cache
    THEN /\ download' = [phase |-> "returned", post |-> i, j |-> j, url |-> url, attempt |-> 0,
                          requests |-> 0, sleeps |-> 0, appended |-> 0, via |-> "cache",
                          updated_html |-> replace(html, url, get_relative_path(download_cache[url]))]
         /\ UrlDone(i, j, url, TRUE, download_cache[url], download'.updated_html)
         /\ UNCHANGED <<download_cache, failed_downloads, disk>>
    ELSE IF path \in disk
    THEN /\ download' = [phase |-> "returned", post |-> i, j |-> j, url |-> url, attempt |-> 0,
                          requests |-> 0, sleeps |-> 0, appended |-> 0, via |-> "disk",
                          updated_html |-> replace(html, url, get_relative_path(path))]
         /\ download_cache' = cache_put(download_cache, url, path)
         /\ UrlDone(i, j, url, TRUE, path, download'.updated_html)
         /\ UNCHANGED <<failed_downloads, disk>>
    ELSE /\ download' = [phase |-> "running", post |-> i, j |-> j, url |-> url, attempt |-> 0,
                          requests |-> 0, sleeps |-> 0, appended |-> 0, via |-> "",
                          updated_html |-> html]
         /\ UNCHANGED <<posts, download_cache, failed_downloads, disk>>

DownloadImage ==
    /\ pc = "process_posts"
    /\ download.phase # "running"
    /\ NextI # 0
    /\ Begin(NextI, NextJ, posts[NextI].image_urls[NextJ],
             local_path(posts[NextI].image_urls[NextJ], posts[NextI].parsed_date),
             IF NextJ = 1 THEN posts[NextI].content_html ELSE download.updated_html)
    /\ UNCHANGED <<notimgvars, pc>>

\* requests.get ... and the file written: the URL is cached and its path returned
RequestOk(path) ==
    /\ download.phase = "running"
    /\ disk' = disk \cup {path}
    /\ download_cache' = cache_put(download_cache, download.url, path)
    /\ download' = [download EXCEPT
                        !.phase = "returned", !.requests = @ + 1, !.via = "download",
                        !.updated_html = replace(@, download.url, get_relative_path(path))]
    /\ UrlDone(download.post, download.j, download.url, TRUE, path, download'.updated_html)
    /\ UNCHANGED <<notimgvars, pc, failed_downloads>>

\* a RequestException, before the file was opened or (partial) while it was
\* being written: sleep and go on, or after the last attempt log the URL and
\* return None
RequestFails(path, partial) ==
    /\ download.phase = "running"
    /\ disk' = IF partial THEN disk \cup {path} ELSE disk
    /\ IF retry(download.attempt)
       THEN /\ download' = [download EXCEPT
                                !.requests = @ + 1, !.sleeps = @ + 1, !.attempt = @ + 1]
            /\ UNCHANGED <<posts, failed_downloads>>
       ELSE /\ download' = [download EXCEPT
                                !.phase = "returned", !.requests = @ + 1, !.appended = @ + 1,
                                !.via = "failed"]
            /\ failed_downloads' = Append(failed_downloads, download.url)
            /\ UrlDone(download.post, download.j, download.url, FALSE, path,
                       download.updated_html)
    /\ UNCHANGED <<notimgvars, pc, download_cache>>

\* get_download_report: the counts process_year prints
get_download_report(cache, failed) ==
    [total_downloaded |-> Cardinality(DOMAIN cache), failed_downloads |-> Len(failed),
     failed_urls |-> failed]

\* process_posts returns; get_download_report
ProcessPostsDone ==
    /\ pc = "process_posts"
    /\ download.phase # "running"
    /\ NextI = 0
    /\ pc' = "report"
    /\ UNCHANGED <<notimgvars, posts, imgvars>>

NextImages ==
    \/ DownloadImage
    \/ RequestOk(local_path(download.url, posts[download.post].parsed_date))
    \/ \E partial \in BOOLEAN :
          RequestFails(local_path(download.url, posts[download.post].parsed_date), partial)
    \/ ProcessPostsDone

SpecImages == InitImages /\ [][NextImages]_vars

\* the program takes its next step: every request returns or times out
FairImages == SpecImages /\ WF_vars(NextImages)

\* =================================================================== claims
\* what each strategy of parse_title_date gives on a title, if it is run
Strategy1(title) == try_dateutil(clean_ordinal_suffix(title), today)
Strategy2(title) == try_regex_pattern(title)
Strategy3(title) == try_dateutil(title, today)

CallIds == 1..Len(calls)

\* the month a month name stands for, full or abbreviated; 0 for none
MonthOfName(t) == IF FullMonth(t) # 0 THEN FullMonth(t) ELSE AbbrMonth(t)

\* a title of the exact shape "<Weekday> <N><ordinal> <Month>, <YYYY>" whose
\* day, month name and year form a valid calendar date
ExactShape(title) ==
    /\ Truthy(title)
    /\ Len(title.toks) = 4
    /\ EndsInDay(title.toks[1]) /\ ~title.toks[1].comma
    /\ title.toks[2].k = "num" /\ title.toks[2].suf \in OrdinalSuffixes /\ ~title.toks[2].comma
    /\ DayDirectiveOk(title.toks[2])
    /\ MonthOfName(title.toks[3]) # 0 /\ title.toks[3].comma
    /\ title.toks[4].k = "num" /\ title.toks[4].len = 4
    /\ title.toks[4].suf = "" /\ ~title.toks[4].comma
    /\ ValidDate(title.toks[4].n, MonthOfName(title.toks[3]), title.toks[2].n)

\* the date such a title names
ExactDate(title) == DateOut(title.toks[4].n, MonthOfName(title.toks[3]), title.toks[2].n)

\* C1 as stated: every title of the exact shape with a valid calendar date is
\* parsed to exactly that date, whatever strategy 1 makes of it.
C1_Stated ==
    \A i \in CallIds : ExactShape(calls[i].title) => calls[i].out = ExactDate(calls[i].title)

\* C1 as amended: for a title of the exact shape with a valid calendar date,
\* parse_title_date returns the date strategy 1 yields when it yields one and
\* otherwise exactly the date the title names; the two agree whenever the
\* year is 0100 or later.
C1_Amended ==
    \A i \in CallIds :
        ExactShape(calls[i].title) =>
            /\ calls[i].out = IF Strategy1(calls[i].title).tag = "date"
                              THEN Strategy1(calls[i].title)
                              ELSE ExactDate(calls[i].title)
            /\ calls[i].title.toks[4].n >= 100 => calls[i].out = ExactDate(calls[i].title)

\* a title of the exact shape was parsed to the date it names
C1_Witness ==
    \E i \in CallIds :
        /\ ExactShape(calls[i].title)
        /\ calls[i].title.toks[4].n >= 100
        /\ calls[i].out = ExactDate(calls[i].title)

\* C2: the strategies run in the order 1 (fuzzy parse of the ordinal-stripped
\* title), 2 (strict pattern on the original title), 3 (fuzzy parse of the
\* original title); the call returns the date of the first that yields one,
\* and no strategy after that one is run.
C2_FirstSuccessWins ==
    \A i \in CallIds :
        Truthy(calls[i].title) =>
            \/ /\ calls[i].ran = <<1>>
               /\ Strategy1(calls[i].title).tag = "date"
               /\ calls[i].out = Strategy1(calls[i].title)
            \/ /\ calls[i].ran = <<1, 2>>
               /\ Strategy1(calls[i].title).tag = "none"
               /\ Strategy2(calls[i].title).tag = "date"
               /\ calls[i].out = Strategy2(calls[i].title)
            \/ /\ calls[i].ran = <<1, 2, 3>>
               /\ Strategy1(calls[i].title).tag = "none"
               /\ Strategy2(calls[i].title).tag = "none"
               /\ calls[i].out = Strategy3(calls[i].title)

\* strategy 1 yielded nothing, strategy 2 yielded the date, strategy 3 was not run
\* although it would have yielded nothing
C2_Witness ==
    \E i \in CallIds :
        /\ calls[i].ran = <<1, 2>>
        /\ calls[i].out.tag = "date"
        /\ Strategy3(calls[i].title).tag = "none"

\* the titles of the calls of cs that were non-empty and for which no
\* strategy yields a date, in call order
RECURSIVE UnparseableTitles(_)
UnparseableTitles(cs) ==
    IF cs = <<>> THEN <<>>
    ELSE IF /\ Truthy(cs[Len(cs)].title)
            /\ Strategy1(cs[Len(cs)].title).tag = "none"
            /\ Strategy2(cs[Len(cs)].title).tag = "none"
            /\ Strategy3(cs[Len(cs)].title).tag = "none"
    THEN Append(UnparseableTitles(SubSeq(cs, 1, Len(cs) - 1)), cs[Len(cs)].title)
    ELSE UnparseableTitles(SubSeq(cs, 1, Len(cs) - 1))

\* C3: after any sequence of calls the failure log is exactly the sequence, in
\* call order and one entry per call, of the non-empty titles for which all
\* three strategies yielded no date (so it only ever grows at its end, and a
\* call that returns a date leaves it alone).
C3_FailureLog == failed_parses = UnparseableTitles(calls)

\* two different unparseable titles around a call that returned a date: the
\* log holds the two, in call order
C3_Witness ==
    /\ Len(calls) = 3
    /\ calls[1].out.tag = "none" /\ Truthy(calls[1].title)
    /\ calls[2].out.tag = "date"
    /\ calls[3].out.tag = "none" /\ Truthy(calls[3].title)
    /\ calls[1].title # calls[3].title
    /\ failed_parses = <<calls[1].title, calls[3].title>>

\* C4: no exception escapes parse_title_date: every call returns a date or None.
C4_NoExceptionEscapes == \A i \in CallIds : calls[i].out.tag \in {"date", "none"}

\* the fuzzy parser raised OverflowError in strategy 1 and the call returned
C4_Witness ==
    \E i \in CallIds :
        /\ Truthy(calls[i].title)
        /\ dateutil_parse(clean_ordinal_suffix(calls[i].title), today) = RaiseOut("OverflowError")
        /\ calls[i].out.tag \in {"date", "none"}

\* C5: a call with an empty string or None returns None, runs no strategy and
\* leaves the failure log unchanged; the log never holds an empty or None entry.
C5_EmptyTitleRejected ==
    /\ [](\A j \in 1..Len(failed_parses) : Truthy(failed_parses[j]))
    /\ [][(Len(calls') = Len(calls) + 1 /\ ~Truthy(calls'[Len(calls')].title)) =>
            /\ failed_parses' = failed_parses
            /\ calls'[Len(calls')].out = NoneOut
            /\ calls'[Len(calls')].ran = <<>>]_vars

\* a call with an empty or None title on a parser whose log already held a title
C5_Witness ==
    /\ Len(calls) >= 2
    /\ Truthy(calls[1].title) /\ calls[1].out.tag = "none"
    /\ ~Truthy(calls[2].title)
    /\ Len(failed_parses) >= 1

\* C6: get_success_rate(n) is 0 for n = 0 and 100 * (n - failureCount) / n
\* otherwise: 100 with an empty log, 70 for 10 attempts and 3 logged failures.
C6_SuccessRateFormula ==
    last_rate.called =>
        /\ last_rate.total = 0 => last_rate.num = 0
        /\ last_rate.total # 0 =>
              last_rate.num * last_rate.total
                  = 100 * (last_rate.total - Len(failed_parses)) * last_rate.den
        /\ (last_rate.total # 0 /\ failed_parses = <<>>) => last_rate.num = 100 * last_rate.den
        /\ (last_rate.total = 10 /\ Len(failed_parses) = 3) => last_rate.num = 70 * last_rate.den

\* get_success_rate(10) was called with three failures logged
C6_Witness == last_rate.called /\ last_rate.total = 10 /\ Len(failed_parses) = 3

\* the rate lies in [0, 100]
InRange(r) == r.num >= 0 /\ r.num <= 100 * r.den

\* C7 as stated: for every totalAttempts >= 0 the rate lies in [0, 100].
C7_Stated == last_rate.called => InRange(last_rate)

\* C7 as amended: the rate lies in [0, 100] for totalAttempts = 0 and for every
\* totalAttempts that is at least the number of logged failures; for
\* 0 < totalAttempts < failureCount it is negative.
C7_Amended ==
    last_rate.called =>
        /\ (last_rate.total = 0 \/ last_rate.total >= Len(failed_parses)) => InRange(last_rate)
        /\ (last_rate.total > 0 /\ last_rate.total < Len(failed_parses)) => last_rate.num < 0

\* a rate strictly between 0 and 100: failures logged, and more attempts than failures
C7_Witness ==
    /\ last_rate.called
    /\ Len(failed_parses) > 0
    /\ last_rate.total > Len(failed_parses)
    /\ InRange(last_rate)

\* C8 as stated: once main has parsed every post's title, the success rate it
\* reports is the percentage of the posts that received a date.
C8_Stated ==
    (pc = "step3" /\ Len(posts) > 0) =>
        success_rate.num * Len(posts)
            = 100 * Cardinality({i \in 1..Len(posts) : posts[i].parsed_date.tag = "date"})
                  * success_rate.den

\* the reconstructed date of the strict pattern's match is not a date
\* strptime accepts
InvalidMatch(title) ==
    /\ PatternSearch(title.toks) # 0
    /\ Strategy2(title).tag = "none"

\* C9: every date parse_title_date returns is a valid calendar date; when the
\* strict pattern matches a day, month and year that form no valid date,
\* strategy 2 yields nothing and the call goes on to strategy 3 without raising.
C9_ValidDates ==
    \A i \in CallIds :
        /\ calls[i].out.tag = "date" => ValidDate(calls[i].out.y, calls[i].out.m, calls[i].out.d)
        /\ (Truthy(calls[i].title) /\ PatternSearch(calls[i].title.toks) # 0
               /\ Len(calls[i].ran) >= 2) =>
              /\ Strategy2(calls[i].title).tag = "date" =>
                    ValidDate(Strategy2(calls[i].title).y, Strategy2(calls[i].title).m,
                              Strategy2(calls[i].title).d)
              /\ Strategy2(calls[i].title).tag = "none" =>
                    /\ calls[i].ran = <<1, 2, 3>>
                    /\ calls[i].out = Strategy3(calls[i].title)
                    /\ calls[i].out.tag \in {"date", "none"}

\* the pattern matched day 31 of a 30-day month; strategy 3 was run
C9_Witness ==
    \E i \in CallIds :
        /\ Truthy(calls[i].title)
        /\ InvalidMatch(calls[i].title)
        /\ calls[i].title.toks[PatternSearch(calls[i].title.toks) + 1].n = 31
        /\ FullMonth(calls[i].title.toks[PatternSearch(calls[i].title.toks) + 2]) = 11
        /\ calls[i].ran = <<1, 2, 3>>

\* C10: on one date, a title's outcome is the same whatever calls came before.
C10_HistoryIndependent ==
    \A i \in CallIds : \A j \in CallIds :
        calls[i].title = calls[j].title => calls[i].out = calls[j].out

\* the same title parsed to the same date before and after a failure was logged
C10_Witness ==
    /\ Len(calls) = 3
    /\ calls[1].title = calls[3].title
    /\ calls[1].out.tag = "date" /\ calls[3].out.tag = "date"
    /\ calls[2].out.tag = "none" /\ Truthy(calls[2].title)
    /\ Len(failed_parses) = 1


\* C11: get_failed_parses returns a snapshot of the failure log, in call
\* order: as long as its holder has not written to it, the returned list is the
\* log as it was at the call, whatever parse_title_date calls come later; and
\* a write to the returned list changes neither the parser's log nor any
\* success rate it reports.
C11_SnapshotIsolated ==
    /\ [](snapshot.held /\ snapshot.writes = 0 =>
            /\ snapshot.items = snapshot.taken
            /\ \E k \in 0..Len(calls) : snapshot.items = UnparseableTitles(SubSeq(calls, 1, k)))
    /\ [][snapshot'.writes > snapshot.writes =>
            /\ failed_parses' = failed_parses
            /\ \A n \in 0..MaxAttempts :
                   get_success_rate(failed_parses', n) = get_success_rate(failed_parses, n)]_vars

\* a list taken from a non-empty log, written to by its holder, with a failed
\* parse after it was taken
C11_Witness ==
    /\ snapshot.held /\ snapshot.writes > 0
    /\ snapshot.taken # <<>>
    /\ snapshot.items # snapshot.taken
    /\ Len(failed_parses) > Len(snapshot.taken)

\* the positions of the characters of text that belong to an ordinal suffix
\* after digits and before a word boundary
SuffixAfterDigits(t, j) ==
    /\ j >= 2 /\ IsDigit(t[j - 1]) /\ SuffixAt(t, j) /\ WordBoundary(t, j + 2)
StatedSuffixChars(t) == {j \in 1..Len(t) : SuffixAfterDigits(t, j) \/ SuffixAfterDigits(t, j - 1)}

\* the same, the digits before the suffix starting at a word boundary
RECURSIVE DigitsStart(_, _)
DigitsStart(t, j) == IF j >= 1 /\ IsDigit(t[j]) THEN DigitsStart(t, j - 1) ELSE j + 1
WholeNumeralSuffix(t, j) == SuffixAfterDigits(t, j) /\ WordBoundary(t, DigitsStart(t, j - 1))
AmendedSuffixChars(t) == {j \in 1..Len(t) : WholeNumeralSuffix(t, j) \/ WholeNumeralSuffix(t, j - 1)}

\* text without the characters at the positions in gone
RECURSIVE Without(_, _)
Without(t, gone) ==
    IF t = <<>> THEN <<>>
    ELSE IF Len(t) \in gone THEN Without(SubSeq(t, 1, Len(t) - 1), gone)
    ELSE Append(Without(SubSeq(t, 1, Len(t) - 1), gone), t[Len(t)])

\* C12 as stated: stripping twice is stripping once, and the result is the
\* text without the st/nd/rd/th that follow a run of digits and precede a word
\* boundary, every other character kept.
C12_Stated ==
    cleaned.done =>
        /\ cleaned.twice = cleaned.once
        /\ cleaned.once = Without(text, StatedSuffixChars(text))

\* C12, amended: stripping twice is stripping once, and the result is the text
\* without the st/nd/rd/th that follow a run of digits which itself starts at
\* a word boundary, and that precede a word boundary; every other character
\* is kept ("P1st" and "3rdP" are unaltered).
C12_Amended ==
    cleaned.done =>
        /\ cleaned.twice = cleaned.once
        /\ cleaned.once = Without(text, AmendedSuffixChars(text))

\* "31st" stripped to "31"
C12_Witness ==
    /\ cleaned.done
    /\ text = <<"3", "1", "s", "t">>
    /\ cleaned.once = <<"3", "1">>

\* main past its grouping step
AfterGrouping == pc \notin {"idle", "step2", "step3"}

\* how often the post i is in the groups
InGroup(i, y) == y \in DOMAIN posts_by_year /\ \E k \in 1..Len(posts_by_year[y]) : posts_by_year[y][k] = i
Places(i) ==
    {<<y, k>> \in UNION {{y} \X (1..Len(posts_by_year[y])) : y \in DOMAIN posts_by_year} :
        posts_by_year[y][k] = i}

YearStages == {"images", "tags", "json", "html"}

\* C13: after grouping, a post is in the group of year y if and only if it has
\* an inferred date of year y, and then at exactly one place; no post without
\* a date is handed to image download, tag indexing or rendering; and main
\* does not take its error exit, whatever titles failed.
C13_GroupedByYear ==
    /\ pc # "exit1"
    /\ AfterGrouping =>
          /\ \A i \in 1..Len(posts) : \A y \in DOMAIN posts_by_year \cup {posts[i].parsed_date.y} :
                 InGroup(i, y) <=> (i \in Dated(posts) /\ posts[i].parsed_date.y = y)
          /\ \A i \in Dated(posts) : Cardinality(Places(i)) = 1
          /\ \A k \in 1..Len(handled) :
                 handled[k].stage \in YearStages =>
                     \A j \in 1..Len(handled[k].refs) : handled[k].refs[j] \in Dated(posts)

\* a finished run over a post of 2023, a post of 2024 and a post whose title
\* gave no date
C13_Witness ==
    /\ pc = "done"
    /\ Len(posts) = 3
    /\ Len(years_found) = 2
    /\ failed_parses # <<>>
    /\ \E i \in 1..Len(posts) : i \notin Dated(posts)
    /\ \E k \in 1..Len(handled) : handled[k].stage = "html"

\* the list refs is in non-decreasing date order, posts of one date in the
\* order of the export
Chronological(refs) ==
    \A a, b \in 1..Len(refs) :
        a < b =>
            /\ ~DateLess(posts[refs[b]].parsed_date, posts[refs[a]].parsed_date)
            /\ posts[refs[a]].parsed_date = posts[refs[b]].parsed_date => refs[a] < refs[b]

\* the list refs holds each post of the year y once, and nothing else
PermutationOfYear(refs, y) ==
    /\ \A a, b \in 1..Len(refs) : a # b => refs[a] # refs[b]
    /\ {refs[k] : k \in 1..Len(refs)} = {i \in Dated(posts) : posts[i].parsed_date.y = y}

\* C14: the list of posts handed to the tag indexer, the JSON generator and
\* the HTML generator for a year is in non-decreasing order of inferred date,
\* with posts of equal date in their order in the export, and holds each post
\* of that year's group exactly once.
C14_SortedWithinYear ==
    \A k \in 1..Len(handled) :
        handled[k].stage \in {"tags", "json", "html"} =>
            /\ Chronological(handled[k].refs)
            /\ PermutationOfYear(handled[k].refs, handled[k].year)

\* a year rendered whose export has a later post before an earlier one, and
\* two posts of one date
C14_Witness ==
    \E k \in 1..Len(handled) :
        /\ handled[k].stage = "html"
        /\ Len(handled[k].refs) = 3
        /\ handled[k].refs[1] > handled[k].refs[2]
        /\ posts[handled[k].refs[2]].parsed_date = posts[handled[k].refs[3]].parsed_date

\* the label occurrences of the posts, in post order: each with the post's identifier
RECURSIVE Occurrences(_)
Occurrences(n) ==
    IF n = 0 THEN <<>>
    ELSE Occurrences(n - 1)
         \o [j \in 1..Len(posts[n].labels) |-> [id |-> posts[n].post_id, label |-> posts[n].labels[j]]]

\* a label as a tag: lowercase, no space at either end
AsTag(label, t) ==
    /\ t # <<>> /\ t[1] # " " /\ t[Len(t)] # " "
    /\ \E a, b \in 0..Len(label) :
           /\ Len(label) = a + Len(t) + b
           /\ \A k \in 1..Len(label) :
                  IF k <= a \/ k > a + Len(t) THEN label[k] = " "
                  ELSE t[k - a] = (IF label[k] = "T" THEN "t" ELSE label[k])

\* the identifiers of the occurrences of the tag t, in order
RECURSIVE IdsOf(_, _)
IdsOf(occ, t) ==
    IF occ = <<>> THEN <<>>
    ELSE IF AsTag(occ[1].label, t) THEN <<occ[1].id>> \o IdsOf(Tail(occ), t)
    ELSE IdsOf(Tail(occ), t)

\* C15: the TagIndex build_index returns has the same keys in tag_frequencies
\* and tag_to_posts, each frequency the length of the tag's list, all_tags the
\* keys in strictly ascending order, every key a non-empty lowercased trimmed
\* label of some post, and each tag's list the identifiers of the posts that
\* carry it, one per occurrence of the label, in post order.
C15_TagIndex ==
    pc = "indexed" =>
        /\ DOMAIN tag_index.tag_frequencies = DOMAIN tag_index.tag_to_posts
        /\ \A t \in DOMAIN tag_index.tag_to_posts :
               /\ tag_index.tag_frequencies[t] = Len(tag_index.tag_to_posts[t])
               /\ tag_index.tag_to_posts[t] # <<>>
               /\ tag_index.tag_to_posts[t] = IdsOf(Occurrences(Len(posts)), t)
        /\ \A k \in 1..Len(Occurrences(Len(posts))) :
               \A t \in {normalized(Occurrences(Len(posts))[k].label)} \ {<<>>} :
                   t \in DOMAIN tag_index.tag_to_posts
        /\ {tag_index.all_tags[k] : k \in 1..Len(tag_index.all_tags)} = DOMAIN tag_index.tag_to_posts
        /\ \A k \in 1..(Len(tag_index.all_tags) - 1) :
               StrLess(tag_index.all_tags[k], tag_index.all_tags[k + 1])

\* two posts, the first with "T" and " t ", the second with "f" and "T": the
\* tag "t" three times, the tag "f" once
C15_Witness ==
    /\ pc = "indexed"
    /\ Len(posts) = 2
    /\ tag_index.all_tags = <<<<"f">>, <<"t">>>>
    /\ tag_index.tag_frequencies[<<"t">>] = 3
    /\ tag_index.tag_to_posts[<<"t">>][1] = tag_index.tag_to_posts[<<"t">>][2]
    /\ tag_index.tag_to_posts[<<"t">>][3] # tag_index.tag_to_posts[<<"t">>][1]

\* C16 as stated: once build_index has run over the posts of a year, no two
\* of them have the same identifier.
C16_Stated ==
    \A i, j \in 1..Len(posts) :
        i # j /\ posts[i].post_id # NoId /\ posts[j].post_id # NoId =>
            posts[i].post_id # posts[j].post_id

\* C17: the report lists the failed titles in the order of the failure log,
\* the first 10 at most; with more than 10 in the log it has one further line
\* giving the number of the rest, with 10 or fewer no such line, and with an
\* empty log no failures section at all.
C17_ReportCapped ==
    report.written =>
        /\ Len(report.titles) <= 10
        /\ Len(report.titles) <= Len(failed_parses)
        /\ report.titles = SubSeq(failed_parses, 1, Len(report.titles))
        /\ Len(failed_parses) > 10 =>
               Len(report.titles) = 10 /\ report.more = Len(failed_parses) - 10
        /\ Len(failed_parses) <= 10 =>
               Len(report.titles) = Len(failed_parses) /\ report.more = 0
        /\ report.section <=> failed_parses # <<>>
        /\ report.section => report.count = Len(failed_parses)

\* a report after 12 failures of two different titles: 10 listed, 2 more
C17_Witness ==
    /\ report.written
    /\ Len(failed_parses) = 12
    /\ failed_parses[1] # failed_parses[2]
    /\ Len(report.titles) = 10
    /\ report.more = 2

\* C18: a parser that has had no call has no failure logged, hands out an
\* empty list of failed titles and reports the rate 0 for 0 attempts, as main
\* prints for an export without posts; and when no post has a date, main is
\* through after grouping, with its warning and nothing else: no content
\* processing, no image download, no year rendered, no index page, no report,
\* and no error exit.
C18_NothingToDo ==
    /\ calls = <<>> =>
          /\ Len(failed_parses) = 0
          /\ get_failed_parses(failed_parses).items = <<>>
          /\ get_success_rate(failed_parses, 0) = [num |-> 0, den |-> 1]
    /\ posts = <<>> /\ pc # "step2" => success_rate.called /\ success_rate.num = 0
    /\ Dated(posts) = {} =>
          /\ pc \in {"step2", "step3", "done"}
          /\ pc = "done" => handled = <<Stage("warning", 0, <<>>)>>
          /\ pc # "done" => handled = <<>>
          /\ ~report.written
          /\ tag_index = NoIndex

\* main through with an export without posts
C18_Witness ==
    /\ pc = "done"
    /\ posts = <<>>
    /\ success_rate.called
    /\ handled = <<Stage("warning", 0, <<>>)>>

\* the post i was handed to the stage st before the k-th stage run
HandledBefore(i, st, k) ==
    \E e \in 1..(k - 1) :
        handled[e].stage = st /\ \E j \in 1..Len(handled[e].refs) : handled[e].refs[j] = i

\* C19 as stated: when a post is handed to tag indexing or to JSON or HTML
\* rendering, every post of the run has had its title parsed, every post with
\* a date has had its content processed, and every post with a date and
\* images has been through image download.
C19_Stated ==
    \A k \in 1..Len(handled) :
        handled[k].stage \in {"tags", "json", "html"} /\ handled[k].refs # <<>> =>
            /\ Len(calls) = Len(posts)
            /\ \A i \in Dated(posts) : HandledBefore(i, "content", k)
            /\ \A i \in Dated(posts) : posts[i].has_images => HandledBefore(i, "images", k)

\* the posts of the year y
OfYear(y) == {i \in Dated(posts) : posts[i].parsed_date.y = y}

\* C19, amended: date inference and content processing each go through all
\* posts of the run before any year is processed; image download, tag
\* indexing, JSON and HTML rendering run year by year, in that order and the
\* years in ascending order, each going through the whole list of its year
\* before the next begins. (So a post of an earlier year is rendered before the
\* images of a later year are downloaded.)
C19_Amended ==
    \A k \in 1..Len(handled) :
        /\ handled[k].stage # "warning" => Len(calls) = Len(posts)
        /\ handled[k].stage \in YearStages =>
               /\ \A i \in Dated(posts) : HandledBefore(i, "content", k)
               /\ \A e \in 1..(k - 1) : handled[e].year <= handled[k].year
        /\ handled[k].stage \in {"tags", "json", "html"} =>
               \A i \in OfYear(handled[k].year) :
                   posts[i].has_images => HandledBefore(i, "images", k)
        /\ handled[k].stage \in {"json", "html"} =>
               \A i \in OfYear(handled[k].year) : HandledBefore(i, "tags", k)
        /\ handled[k].stage = "html" =>
               \A i \in OfYear(handled[k].year) : HandledBefore(i, "json", k)
        /\ handled[k].stage = "index" =>
               \A i \in Dated(posts) : HandledBefore(i, "html", k)

\* a finished run over two years, the later with a post with images: its
\* images were downloaded after the earlier year was rendered
C19_Witness ==
    /\ pc = "done"
    /\ Len(years_found) = 2
    /\ \E a, b \in 1..Len(handled) :
           /\ a < b
           /\ handled[a].stage = "html" /\ handled[a].year = years_found[1]
           /\ handled[b].stage = "images" /\ handled[b].year = years_found[2]

\* a title of the shape "<Weekday> <N> <Month>, <YYYY>", the day number
\* without an ordinal suffix, whose day, month name and year form a valid
\* calendar date
PlainShape(title) ==
    /\ Truthy(title)
    /\ Len(title.toks) = 4
    /\ EndsInDay(title.toks[1]) /\ ~title.toks[1].comma
    /\ title.toks[2].k = "num" /\ title.toks[2].suf = "" /\ ~title.toks[2].comma
    /\ DayDirectiveOk(title.toks[2])
    /\ MonthOfName(title.toks[3]) # 0 /\ title.toks[3].comma
    /\ title.toks[4].k = "num" /\ title.toks[4].len = 4
    /\ title.toks[4].suf = "" /\ ~title.toks[4].comma
    /\ ValidDate(title.toks[4].n, MonthOfName(title.toks[3]), title.toks[2].n)

\* C20 as stated: on a title of that shape, with no st/nd/rd/th after the day
\* number, _try_regex_pattern matches and gives the date the title names.
C20_Stated ==
    \A i \in CallIds :
        PlainShape(calls[i].title) => try_regex_pattern(calls[i].title) = ExactDate(calls[i].title)

\* what the counters of a _download_image call may be while it runs and when
\* it has returned
BoundedRetry ==
    /\ download.requests <= image_retry_count
    /\ download.phase = "running" =>
           /\ download.requests < image_retry_count
           /\ download.sleeps = download.requests
           /\ download.appended = 0
    /\ download.via \in {"cache", "disk"} =>
           download.requests = 0 /\ download.sleeps = 0 /\ download.appended = 0
    /\ download.via = "download" =>
           /\ download.requests >= 1
           /\ download.sleeps = download.requests - 1
           /\ download.appended = 0
           /\ download.url \in DOMAIN download_cache
    /\ download.via = "failed" =>
           /\ download.requests = image_retry_count
           /\ download.sleeps = image_retry_count - 1
           /\ download.appended = 1
           /\ posts[download.post].results[download.j].found = FALSE

\* C21: for a URL neither cached nor on disk _download_image issues at most
\* retry_count requests, stops at the first successful one, sleeps only
\* between attempts, and after retry_count failed requests returns None and
\* has appended the URL to failed_downloads exactly once; a request never
\* follows a success, and the call always returns
C21_BoundedRetry ==
    /\ []BoundedRetry
    /\ [][download.phase = "running" =>
             \/ failed_downloads' = failed_downloads /\ download'.via # "failed"
             \/ /\ download'.via = "failed"
                /\ failed_downloads' = Append(failed_downloads, download.url)]_vars
    /\ [][download'.requests > download.requests => download.phase = "running"]_vars
    /\ (download.phase = "running") ~> (download.phase = "returned")

C21_Witness ==
    /\ download.via = "failed"
    /\ download.requests = image_retry_count
    /\ failed_downloads = <<download.url>>

\* the text url occurs in the content
Occurs(html, url) ==
    \E k \in 1..Len(html) : \E at \in 1..Len(html[k]) :
        /\ at + Len(url) - 1 <= Len(html[k])
        /\ SubSeq(html[k], at, at + Len(url) - 1) = url

\* process_posts has assigned the content of the post i
Localized(i) == posts[i].has_images /\ Len(posts[i].results) = Len(posts[i].image_urls)

\* C22 as stated: once the downloader has processed a sanitized, dated post,
\* the content holds the local relative path in place of every image URL that
\* was downloaded, cached or found on disk, and still holds the original URL
\* of every image whose download failed.
C22_Stated ==
    \A i \in 1..Len(posts) : Localized(i) =>
        \A j \in 1..Len(posts[i].results) :
            IF posts[i].results[j].found
            THEN /\ Occurs(posts[i].content_html,
                           <<get_relative_path(posts[i].results[j].path)>>)
                 /\ ~Occurs(posts[i].content_html, posts[i].results[j].url)
            ELSE Occurs(posts[i].content_html, posts[i].results[j].url)

\* every worker's call has returned
AllReturned == \A w \in 1..MaxWorkers : workers[w].phase = "idle"

\* C23: with several workers calling parse_title_date on one DateParser, once
\* all calls have returned the failure log holds exactly one entry per call
\* that ended in total failure (none lost, none twice), and every call
\* returned what it returns when run alone on a fresh parser
C23_NoLostFailure ==
    AllReturned =>
        /\ failed_parses = UnparseableTitles(calls)
        /\ \A i \in CallIds :
               /\ calls[i].out = parse_title_date(<<>>, calls[i].title, today).out
               /\ calls[i].ran = parse_title_date(<<>>, calls[i].title, today).ran

\* a worker's entry landed behind one that another worker appended while the
\* first was between its last strategy and its append
C23_Witness ==
    /\ AllReturned
    /\ Len(calls) = MaxCalls
    /\ \E w \in 1..MaxWorkers : workers[w].at > Len(workers[w].seen) + 1

\* this step is the entry of a _download_image call
CallBegins == download.phase # "running" /\ download' # download

Failed(url) == \E k \in 1..Len(failed_downloads) : failed_downloads[k] = url

\* C24 as stated: a call for a cached URL returns the cached path and issues
\* no request; the cache only grows and no entry's path changes; a URL whose
\* download failed is not cached, and a later call for it is attempted again,
\* from attempt 0 with no request spent.
C24_Stated ==
    /\ [][CallBegins /\ download'.url \in DOMAIN download_cache =>
             /\ download'.via = "cache" /\ download'.requests = 0
             /\ posts'[download'.post].results[download'.j].path
                    = download_cache[download'.url]]_vars
    /\ [][\A url \in DOMAIN download_cache :
             url \in DOMAIN download_cache' /\ download_cache'[url] = download_cache[url]]_vars
    /\ [](download.via = "failed" => download.url \notin DOMAIN download_cache)
    /\ [][CallBegins /\ Failed(download'.url) /\ download'.url \notin DOMAIN download_cache =>
             /\ download'.phase = "running"
             /\ download'.attempt = 0 /\ download'.requests = 0]_vars

FailedUrls == {failed_downloads[k] : k \in 1..Len(failed_downloads)}

\* C25 as stated: while an ImageDownloader processes a year's posts no URL is
\* both in download_cache and in failed_downloads, and no URL is twice in
\* failed_downloads, so that the report's two counts are the sizes of two
\* disjoint sets of URLs.
C25_Stated ==
    /\ \A url \in DOMAIN download_cache : url \notin FailedUrls
    /\ \A a, b \in 1..Len(failed_downloads) :
           a # b => failed_downloads[a] # failed_downloads[b]
    /\ pc = "report" =>
           /\ get_download_report(download_cache, failed_downloads).failed_downloads
                  = Cardinality(FailedUrls)
           /\ get_download_report(download_cache, failed_downloads).total_downloaded
                  = Cardinality(DOMAIN download_cache \ FailedUrls)
====
